---- MODULE Spec2Model ----
(***************************************************************************)
(* Model of the OpenProject -> DevLake pipeline.                           *)
(*                                                                         *)
(* Collector (collectors/openproject_collector.py): the rate limited,      *)
(* retrying HTTP client (_rate_limit, _make_request), the Raw Store        *)
(* (_store_raw_data), the pagination loops of the collect_* methods and    *)
(* run_collection, which calls them in turn on one collector.              *)
(* The clock counts ticks of 1/rate_limit_rpm of a second, the unit in     *)
(* which 60.0 / rate_limit_rpm is the whole number 60; it advances by the  *)
(* sleeps the code performs.                                               *)
(***************************************************************************)
EXTENDS Integers, Sequences, FiniteSets, TLC

VARIABLES
    config,                 \* config.yaml as read in __init__; use_pure: the cursor
                            \* of mysql.connector is the pure Python one
    server,                 \* what the API may answer: attempt outcomes and bodies
    call,                   \* the collector method being run, its arguments, and the
                            \* calls run_collection makes after it (rest)
    pc,                     \* position of the running method
    page,                   \* local `page` of a pagination loop
    total_collected,        \* local `total_collected`
    response,               \* local `response`: the last value _make_request returned
    meta_idx,               \* collect_metadata: index of the endpoint being tried
    req,                    \* the _make_request invocation in progress
    attempts,               \* outcomes of the HTTP attempts of that invocation
    sleeps,                 \* time.sleep calls of that invocation
    now,                    \* time.time(), in ticks of 1/rate_limit_rpm s
    last_request_time,      \* self.last_request_time
    request_count,          \* self.request_count
    request_window_start,   \* self.request_window_start
    raw,                    \* the _raw_openproject_api_* tables
    requests,               \* _make_request invocations of the running method
    sent,                   \* clock readings at which this collector called requests.get
    prior,                  \* raw rows that earlier runs left, per raw table
    last_sync,              \* cursor found by _get_last_sync_time, None without one
    warned,                 \* the "Reached maximum page limit" warning was logged
    result,                 \* value returned by the running method
    tool,                   \* the _tool_openproject_* tables
    domain,                 \* the domain tables
    written,                \* rows INSERTed by the latest extractor run, per tool table
    stages,                 \* the extractor and converter runs made so far, in order
    fault,                  \* the INSERT at which the database fails, if any
    trail,                  \* methods the latest run called, with their exceptions
    pipeline,               \* run_pipeline.main: components running, outcomes, exit code
    stage                   \* the stage run in progress: its next method, its offset

vars == <<config, server, call, pc, page, total_collected, response, meta_idx, req,
          attempts, sleeps, now, last_request_time, request_count,
          request_window_start, raw, requests, sent, prior, last_sync, warned, result,
          tool, domain, written, stages, fault, trail, pipeline, stage>>

-----------------------------------------------------------------------------
(* Bounds of the model *)

MaxRetryAttempts == 3       \* retry_attempts ranges over 1..MaxRetryAttempts
MaxPagesCap == 2            \* max_pages ranges over 1..MaxPagesCap
PageSize == 2               \* batch_size: elements per full page
MaxTotal == 5               \* largest `total` the server reports
MaxRuns == 2                \* extractor and converter runs after a collection

-----------------------------------------------------------------------------
(* Values *)

None == -1                  \* Python None / SQL NULL in an integer position
NULL == [null |-> TRUE]     \* Python None / SQL NULL in a structured position
NoString == "None"          \* Python None / SQL NULL in a string position
ConnectionId == 1           \* openproject.connection_id of this collector
StartTime == 100            \* time.time() when the collector is constructed
WindowSeconds == 60         \* length of the rate limit window
DefaultRetryAfter == 60     \* Retry-After assumed when the header is absent

Truthy(x) == x # None /\ x # 0

RECURSIVE Pow2(_)
Pow2(n) == IF n = 0 THEN 1 ELSE 2 * Pow2(n - 1)

\* A time.sleep call of secs / per seconds.
Sleep(kind, secs, per) == [kind |-> kind, secs |-> secs, per |-> per]

RECURSIVE SumSecs(_)
SumSecs(s) == IF s = <<>> THEN 0 ELSE Head(s).secs + SumSecs(Tail(s))

\* The ticks of 1/rpm s that the sleeps take: each is a whole number of them.
RECURSIVE Elapsed(_, _)
Elapsed(s, rpm) ==
    IF s = <<>> THEN 0 ELSE (Head(s).secs * rpm) \div Head(s).per + Elapsed(Tail(s), rpm)

SelectKind(s, k) == SelectSeq(s, LAMBDA x : x.kind = k)

-----------------------------------------------------------------------------
(* Text of a header value: a sequence of one-character strings *)

Digits == <<"0", "1", "2", "3", "4", "5", "6", "7", "8", "9">>

IsDigit(c) == \E i \in 1..10 : Digits[i] = c

DigitValue(c) == (CHOOSE i \in 1..10 : Digits[i] = c) - 1

\* The digits of a numeral, its underscores dropped.
RECURSIVE DecimalValue(_)
DecimalValue(s) ==
    IF s = <<>> THEN 0
    ELSE IF s[Len(s)] = "_" THEN DecimalValue(SubSeq(s, 1, Len(s) - 1))
    ELSE 10 * DecimalValue(SubSeq(s, 1, Len(s) - 1)) + DigitValue(s[Len(s)])

\* The characters of a header value (requests decodes it as Latin-1) that
\* int() skips around a numeral: the space, \t, \n, \r, \f and, written as
\* they are because a string has no escape for them, the vertical tab \x0b,
\* the next line character \x85 and the no-break space \xa0.
Whitespace == {" ", "\t", "\n", "\r", "\f", "", "", " "}

RECURSIVE StripSpaces(_)
StripSpaces(s) ==
    IF s # <<>> /\ Head(s) \in Whitespace THEN StripSpaces(Tail(s))
    ELSE IF s # <<>> /\ s[Len(s)] \in Whitespace THEN StripSpaces(SubSeq(s, 1, Len(s) - 1))
    ELSE s

\* Python int(str): optional surrounding whitespace, optional sign, decimal
\* digits that single underscores may separate; anything else raises
\* ValueError.
int(s) ==
    LET t == StripSpaces(s)
        signed == t # <<>> /\ Head(t) \in {"-", "+"}
        body == IF signed THEN Tail(t) ELSE t
        numeral == /\ body # <<>>
                   /\ IsDigit(body[1])
                   /\ IsDigit(body[Len(body)])
                   /\ \A i \in 1..Len(body) :
                        \/ IsDigit(body[i])
                        \/ body[i] = "_" /\ body[i - 1] # "_"
    IN  IF ~numeral
        THEN [ok |-> FALSE, value |-> 0]
        ELSE [ok |-> TRUE,
              value |-> IF signed /\ Head(t) = "-" THEN 0 - DecimalValue(body)
                        ELSE DecimalValue(body)]

-----------------------------------------------------------------------------
(* The server and the network, as seen by one requests.get call *)

NoHeader == [present |-> FALSE, text |-> <<>>]

\* Retry-After header values a 429 response may carry.
RetryAfterHeaders ==
    { NoHeader,
      [present |-> TRUE, text |-> <<"5">>],
      [present |-> TRUE, text |-> <<"-", "1">>],
      [present |-> TRUE, text |-> <<"", "7", " ">>],
      [present |-> TRUE, text |-> <<"W", "e", "d", ",", " ", "2", "1">>] }

\* Status codes for which response.raise_for_status() raises HTTPError.
ErrorStatusCodes == {404, 429, 500, 501, 503}

AttemptOutcomes ==
    { [kind |-> "ok", status |-> 200, retry_after |-> NoHeader],
      [kind |-> "timeout", status |-> None, retry_after |-> NoHeader],
      [kind |-> "connection_error", status |-> None, retry_after |-> NoHeader] }
    \cup { [kind |-> "http_error", status |-> c, retry_after |-> NoHeader] :
                c \in ErrorStatusCodes \ {429} }
    \cup { [kind |-> "http_error", status |-> 429, retry_after |-> h] :
                h \in RetryAfterHeaders }

\* Bodies of successful responses: len(_embedded.elements) and the `total`
\* field (None when the body carries no total).
Bodies == [elements : 0..PageSize, total : {None} \cup 0..MaxTotal]

NoData == [elements |-> None, total |-> None]

-----------------------------------------------------------------------------
(* HTTP client: _rate_limit and _make_request *)

RateLimitRpms == {1, 7, 60}

\* _rate_limit, from the limiter state `l` at time l.now; `slept` lists the
\* sleeps. Times are in ticks of 1/rpm s: the window of 60 s is 60 * rpm ticks,
\* min_interval = 60.0 / rate_limit_rpm is 60 ticks.
_rate_limit(l, rpm) ==
    LET current_time == l.now
        window == WindowSeconds * rpm
        reset == current_time - l.request_window_start >= window
        count1 == IF reset THEN 0 ELSE l.request_count
        start1 == IF reset THEN current_time ELSE l.request_window_start
        window_sleep == window - (current_time - start1)
        at_limit == count1 >= rpm /\ window_sleep > 0
        now1 == IF at_limit THEN l.now + window_sleep ELSE l.now
        count2 == IF at_limit THEN 0 ELSE count1
        start2 == IF at_limit THEN now1 ELSE start1
        time_since_last == current_time - l.last_request_time
        min_interval == 60
        spacing == time_since_last < min_interval
        now2 == IF spacing THEN now1 + (min_interval - time_since_last) ELSE now1
    IN  [now |-> now2,
         last_request_time |-> now2,
         request_count |-> count2 + 1,
         request_window_start |-> start2,
         slept |-> (IF at_limit THEN <<Sleep("window", window_sleep, rpm)>> ELSE <<>>)
                   \o (IF spacing
                       THEN <<Sleep("spacing", min_interval - time_since_last, rpm)>>
                       ELSE <<>>)]

Limiter == [now |-> now, last_request_time |-> last_request_time,
            request_count |-> request_count,
            request_window_start |-> request_window_start]

\* time.sleep(2 ** attempt)
BackoffSeconds(attempt) == Pow2(attempt)

\* Variant of RetryAfterSeconds: the header is ignored, the default is slept.
RetryAfterDefaultOnly(header) ==
    IF header.present /\ ~int(header.text).ok THEN int(header.text)
    ELSE [ok |-> TRUE, value |-> DefaultRetryAfter]

\* int(e.response.headers.get('Retry-After', 60))
RetryAfterSeconds(header) ==
    IF header.present THEN int(header.text) ELSE [ok |-> TRUE, value |-> DefaultRetryAfter]

\* Variant of RetryableStatus: 404 is retried as well.
RetryableStatusWith404 == {404, 500, 502, 503, 504}

RetryableStatus == {500, 502, 503, 504}

NoSleep == <<>>

\* One iteration of the `for attempt in range(self.retry_attempts)` loop whose
\* requests.get had outcome o.  next: "return" (success), "continue" (next
\* iteration), "break", or "raise" (an exception leaves _make_request).
AttemptBody(attempt, o, retry_attempts) ==
    LET backoff ==
            IF attempt < retry_attempts - 1
            THEN [next |-> "continue",
                  sleep |-> <<Sleep("backoff", BackoffSeconds(attempt), 1)>>]
            ELSE [next |-> "continue", sleep |-> NoSleep]
        retry_after == RetryAfterSeconds(o.retry_after)
    IN  CASE o.kind = "ok" -> [next |-> "return", sleep |-> NoSleep]
          [] o.kind = "timeout" -> backoff
          [] o.kind = "connection_error" -> backoff
          [] o.kind = "http_error" /\ o.status = 429 ->
                IF ~retry_after.ok THEN [next |-> "raise", sleep |-> NoSleep]
                ELSE IF retry_after.value < 0 THEN [next |-> "raise", sleep |-> NoSleep]
                ELSE [next |-> "continue",
                      sleep |-> <<Sleep("retry_after", retry_after.value, 1)>>]
          [] o.kind = "http_error" /\ o.status \in RetryableStatus -> backoff
          [] OTHER -> [next |-> "break", sleep |-> NoSleep]

NoFilter == [field |-> "", value |-> None]

\* `params or {}` of a request made without params.
NoParams == [pageSize |-> None, offset |-> None, filters |-> NoFilter]

NoRequest == [url |-> [path |-> "", id |-> None], params |-> NoParams, attempt |-> 0]

SuccessResponse(r, body) ==
    [success |-> TRUE, data |-> body, url |-> r.url, params |-> r.params]

FailureResponse(r) ==
    [success |-> FALSE, data |-> NoData, url |-> r.url, params |-> r.params]

-----------------------------------------------------------------------------
(* _make_request as a process: the call (with _rate_limit) and the attempts *)

\* Entry of _make_request(endpoint, params): self._rate_limit(), then the
\* attempt loop starts with attempt = 0.
MakeRequestCall(url, params) ==
    LET l == _rate_limit(Limiter, config.rate_limit_rpm)
        r == [url |-> url, params |-> params, attempt |-> 0]
    IN  /\ req' = r
        /\ requests' = Append(requests, [url |-> url, params |-> params])
        /\ attempts' = <<>>
        /\ sleeps' = l.slept
        /\ now' = l.now
        /\ last_request_time' = l.last_request_time
        /\ request_count' = l.request_count
        /\ request_window_start' = l.request_window_start
        /\ sent' = sent
        /\ pc' = "attempt"

\* One requests.get of the attempt loop, with the handling of its outcome; the
\* loop ends by a return, a break, an exception, or when range() is exhausted.
_make_request ==
    /\ pc = "attempt"
    /\ \E o \in server.outcomes, body \in server.bodies :
        LET b == AttemptBody(req.attempt, o, config.retry_attempts)
            exhausted == req.attempt + 1 >= config.retry_attempts
        IN  /\ attempts' = Append(attempts, o)
            /\ sleeps' = sleeps \o b.sleep
            /\ now' = now + Elapsed(b.sleep, config.rate_limit_rpm)
            /\ req' = [req EXCEPT !.attempt = IF b.next = "continue" THEN @ + 1 ELSE @]
            /\ CASE b.next = "return" ->
                      /\ response' = SuccessResponse(req, body)
                      /\ pc' = "store"
                      /\ UNCHANGED result
                 [] b.next = "raise" ->
                      /\ pc' = "raised"
                      /\ result' = "ValueError"
                      /\ UNCHANGED response
                 [] b.next = "break" \/ (b.next = "continue" /\ exhausted) ->
                      /\ response' = FailureResponse(req)
                      /\ pc' = "store"
                      /\ UNCHANGED result
                 [] OTHER ->
                      UNCHANGED <<response, pc, result>>
    /\ sent' = Append(sent, now)
    /\ UNCHANGED <<config, server, prior, last_sync, call, page, total_collected, meta_idx, last_request_time,
                   request_count, request_window_start, raw, requests, warned, tool, domain, written, stages, fault, trail, pipeline, stage>>

\* The caller goes on with the returned value: the locals of the finished
\* _make_request invocation are gone.
ReturnedFromRequest ==
    /\ req' = NoRequest
    /\ attempts' = <<>>
    /\ sleeps' = <<>>

-----------------------------------------------------------------------------
(* Raw Store: _store_raw_data *)

RawTables ==
    { "_raw_openproject_api_work_packages", "_raw_openproject_api_projects",
      "_raw_openproject_api_users", "_raw_openproject_api_time_entries",
      "_raw_openproject_api_versions", "_raw_openproject_api_statuses",
      "_raw_openproject_api_types", "_raw_openproject_api_priorities",
      "_raw_openproject_api_activities" }

NoInput == [field |-> "", value |-> None]

\* The record _store_raw_data builds from a _make_request result.
RawRecord(data, additional_fields) ==
    [connection_id |-> ConnectionId,
     params |-> data.params,
     url |-> data.url,
     input |-> additional_fields,
     data |-> IF data.success THEN data.data ELSE NULL]

\* Variant of _store_raw_data: a failed request is logged but not stored.
StoreSuccessOnly(store, table_name, data, additional_fields) ==
    IF data.success
    THEN [store EXCEPT ![table_name] = Append(@, RawRecord(data, additional_fields))]
    ELSE store

\* INSERT INTO table_name ... ; commit
_store_raw_data(store, table_name, data, additional_fields) ==
    [store EXCEPT ![table_name] = Append(@, RawRecord(data, additional_fields))]

-----------------------------------------------------------------------------
(* Pagination loops: collect_work_packages, collect_projects, collect_users,
   collect_time_entries, collect_versions *)

PaginatedOps ==
    { "collect_work_packages", "collect_projects", "collect_users",
      "collect_time_entries", "collect_versions" }

\* Endpoint of a paginated method; only collect_versions puts its argument
\* in the path.
Endpoint(op, arg) ==
    CASE op = "collect_work_packages" -> [path |-> "/api/v3/work_packages", id |-> None]
      [] op = "collect_projects" -> [path |-> "/api/v3/projects", id |-> None]
      [] op = "collect_users" -> [path |-> "/api/v3/users", id |-> None]
      [] op = "collect_time_entries" -> [path |-> "/api/v3/time_entries", id |-> None]
      [] op = "collect_versions" ->
            IF Truthy(arg) THEN [path |-> "/api/v3/projects/{project_id}/versions", id |-> arg]
            ELSE [path |-> "/api/v3/versions", id |-> None]

\* params['filters'] of a paginated method.
Filters(op, arg) ==
    CASE op = "collect_work_packages" /\ Truthy(arg) -> [field |-> "project", value |-> arg]
      [] op = "collect_time_entries" /\ Truthy(arg) -> [field |-> "workPackage", value |-> arg]
      [] OTHER -> NoFilter

Params(op, arg, offset) ==
    [pageSize |-> config.batch_size, offset |-> offset, filters |-> Filters(op, arg)]

RawTableOf(op) ==
    CASE op = "collect_work_packages" -> "_raw_openproject_api_work_packages"
      [] op = "collect_projects" -> "_raw_openproject_api_projects"
      [] op = "collect_users" -> "_raw_openproject_api_users"
      [] op = "collect_time_entries" -> "_raw_openproject_api_time_entries"
      [] op = "collect_versions" -> "_raw_openproject_api_versions"

\* additional_fields passed to _store_raw_data.
AdditionalFields(op, arg) ==
    CASE op = "collect_work_packages" -> [field |-> "project_id", value |-> arg]
      [] op = "collect_time_entries" -> [field |-> "work_package_id", value |-> arg]
      [] op = "collect_versions" -> [field |-> "project_id", value |-> arg]
      [] OTHER -> NoInput

\* The loop condition: `while page <= self.max_pages`, but `while True` in
\* collect_projects.
LoopCondition(op, p) ==
    IF op = "collect_projects" THEN TRUE ELSE p <= config.max_pages

\* Variant of GetTotal: a body without total counts as one that reports more
\* than any collection holds.
GetTotalOrMore(data) ==
    IF data.total = None THEN MaxTotal + PageSize * MaxPagesCap + 1 ELSE data.total

\* data.get('total', 0)
GetTotal(data) == IF data.total = None THEN 0 ELSE data.total

\* What the database does when _get_last_sync_time turns to it: it connects
\* and answers, it connects and the SELECT raises, or the connection fails.
DatabaseAnswers == {"ok", "select_error", "connect_error"}

\* _get_last_sync_time: self._get_db_connection() stands before the try, so
\* its exception leaves the method; SELECT MAX(created_at) FROM table_name
\* WHERE connection_id = %s AND data IS NOT NULL gives the cursor (rows are
\* appended in the order of their created_at, the cursor is the position of
\* the last such row), None without such a row; an error of the SELECT is
\* logged and None returned.
_get_last_sync_time(store, table_name, connection_id, db) ==
    LET hits == { k \in 1..Len(store[table_name]) :
                    /\ store[table_name][k].connection_id = connection_id
                    /\ store[table_name][k].data # NULL }
    IN  CASE db = "connect_error" -> [error |-> "InterfaceError", last_sync |-> None]
          [] db = "select_error" -> [error |-> "none", last_sync |-> None]
          [] OTHER ->
                [error |-> "none",
                 last_sync |-> IF hits = {} THEN None
                               ELSE CHOOSE k \in hits : \A j \in hits : j <= k]

\* What a method does before its loop: collect_work_packages and
\* collect_time_entries look the cursor up when `incremental` and log it; an
\* exception of the lookup leaves the method.
Prologue(op, db) ==
    IF op \in {"collect_work_packages", "collect_time_entries"} /\ call.incremental
    THEN _get_last_sync_time(raw, RawTableOf(op), ConnectionId, db)
    ELSE [error |-> "none", last_sync |-> None]

\* Head of a loop iteration (the first one follows the method's prologue,
\* which may raise): the loop condition, then the page request; when the
\* condition fails the method logs the page limit warning and returns.
PageRequest(op) ==
    /\ call.op = op
    /\ pc = "loop"
    /\ \E db \in DatabaseAnswers :
        LET before == IF page = 1 THEN Prologue(op, db)
                      ELSE [error |-> "none", last_sync |-> last_sync]
        IN  IF before.error # "none"
            THEN /\ pc' = "raised"
                 /\ result' = before.error
                 /\ UNCHANGED <<req, requests, attempts, sleeps, now, last_request_time,
                                request_count, request_window_start, sent, last_sync,
                                warned>>
            ELSE IF LoopCondition(op, page)
            THEN /\ MakeRequestCall(Endpoint(op, call.arg), Params(op, call.arg, page))
                 /\ last_sync' = before.last_sync
                 /\ UNCHANGED <<warned, result>>
            ELSE /\ pc' = "done"
                 /\ warned' = TRUE
                 /\ result' = total_collected
                 /\ last_sync' = before.last_sync
                 /\ UNCHANGED <<req, requests, attempts, sleeps, now, last_request_time,
                                request_count, request_window_start, sent>>
    /\ UNCHANGED <<config, server, prior, call, page, total_collected, response, meta_idx, raw,
                   tool, domain, written, stages, fault, trail, pipeline, stage>>

\* self._store_raw_data(table, response, additional_fields); a database
\* error is re-raised and leaves the method.
PageStore(op) ==
    /\ call.op = op
    /\ pc = "store"
    /\ \E db_ok \in BOOLEAN :
        IF db_ok
        THEN /\ raw' = _store_raw_data(raw, RawTableOf(op), response,
                                       AdditionalFields(op, call.arg))
             /\ pc' = "decide"
             /\ UNCHANGED result
        ELSE /\ pc' = "raised"
             /\ result' = "mysql.connector.Error"
             /\ UNCHANGED raw
    /\ ReturnedFromRequest
    /\ UNCHANGED <<config, server, prior, last_sync, call, page, total_collected, response, meta_idx,
                   now, last_request_time, request_count, request_window_start,
                   requests, sent, warned, tool, domain, written, stages, fault, trail, pipeline, stage>>

\* Variant of PageDecision: `>` for `>=` in the comparison with the total.
PageDecisionStrict(resp, collected) ==
    IF ~resp.success THEN [next |-> "break", collected |-> collected]
    ELSE IF resp.data.elements = 0 THEN [next |-> "break", collected |-> collected]
    ELSE IF collected + resp.data.elements > GetTotal(resp.data)
         THEN [next |-> "break", collected |-> collected + resp.data.elements]
    ELSE [next |-> "next", collected |-> collected + resp.data.elements]

\* Variant of PageDecision: a failed page is skipped instead of ending the loop.
PageDecisionSkipFailed(resp, collected) ==
    IF ~resp.success THEN [next |-> "next", collected |-> collected]
    ELSE IF resp.data.elements = 0 THEN [next |-> "break", collected |-> collected]
    ELSE IF collected + resp.data.elements >= GetTotal(resp.data)
         THEN [next |-> "break", collected |-> collected + resp.data.elements]
    ELSE [next |-> "next", collected |-> collected + resp.data.elements]

\* What the loop body does with a stored response: "break" or "next".
PageDecision(resp, collected) ==
    IF ~resp.success THEN [next |-> "break", collected |-> collected]
    ELSE IF resp.data.elements = 0 THEN [next |-> "break", collected |-> collected]
    ELSE IF collected + resp.data.elements >= GetTotal(resp.data)
         THEN [next |-> "break", collected |-> collected + resp.data.elements]
    ELSE [next |-> "next", collected |-> collected + resp.data.elements]

PageDecide(op) ==
    /\ call.op = op
    /\ pc = "decide"
    /\ LET d == PageDecision(response, total_collected)
       IN  /\ total_collected' = d.collected
           /\ IF d.next = "break"
              THEN /\ pc' = "done"
                   /\ result' = d.collected
                   /\ UNCHANGED page
              ELSE /\ pc' = "loop"
                   /\ page' = page + 1
                   /\ UNCHANGED result
    /\ UNCHANGED <<config, server, prior, last_sync, call, response, meta_idx, req, attempts, sleeps, now,
                   last_request_time, request_count, request_window_start, raw,
                   requests, sent, warned, tool, domain, written, stages, fault, trail, pipeline, stage>>

Paginate(op) == PageRequest(op) \/ PageStore(op) \/ PageDecide(op)

collect_work_packages == Paginate("collect_work_packages")

collect_projects == Paginate("collect_projects")

collect_users == Paginate("collect_users")

collect_time_entries == Paginate("collect_time_entries")

collect_versions == Paginate("collect_versions")

-----------------------------------------------------------------------------
(* collect_metadata *)

\* metadata_endpoints (1..3) followed by activities_endpoints (4..5).
MetadataEndpoints ==
    << [path |-> "/api/v3/statuses", table |-> "_raw_openproject_api_statuses"],
       [path |-> "/api/v3/types", table |-> "_raw_openproject_api_types"],
       [path |-> "/api/v3/priorities", table |-> "_raw_openproject_api_priorities"],
       [path |-> "/api/v3/time_entries/activities", table |-> "_raw_openproject_api_activities"],
       [path |-> "/api/v3/activities", table |-> "_raw_openproject_api_activities"] >>

IsActivitiesEndpoint(i) == i > 3

\* Next endpoint of the two for loops, or the return when both are finished.
MetadataRequest ==
    /\ call.op = "collect_metadata"
    /\ pc = "loop"
    /\ IF meta_idx <= Len(MetadataEndpoints)
       THEN /\ MakeRequestCall([path |-> MetadataEndpoints[meta_idx].path, id |-> None],
                               NoParams)
            /\ UNCHANGED result
       ELSE /\ pc' = "done"
            /\ result' = total_collected
            /\ UNCHANGED <<req, requests, attempts, sleeps, now, last_request_time,
                           request_count, request_window_start, sent>>
    /\ UNCHANGED <<config, server, prior, last_sync, call, page, total_collected, response, meta_idx, raw,
                   warned, tool, domain, written, stages, fault, trail, pipeline, stage>>

\* Whether collect_metadata hands the response of endpoint i to _store_raw_data.
MetadataStores(i, resp) == IF IsActivitiesEndpoint(i) THEN resp.success ELSE TRUE

\* Body of the loops once _make_request has returned.
MetadataStore ==
    /\ call.op = "collect_metadata"
    /\ pc = "store"
    /\ \E db_ok \in BOOLEAN :
        IF MetadataStores(meta_idx, response) /\ ~db_ok
        THEN /\ pc' = "raised"
             /\ result' = "mysql.connector.Error"
             /\ UNCHANGED <<raw, total_collected, meta_idx>>
        ELSE /\ raw' = IF MetadataStores(meta_idx, response)
                       THEN _store_raw_data(raw, MetadataEndpoints[meta_idx].table,
                                            response, NoInput)
                       ELSE raw
             /\ total_collected' = IF response.success
                                   THEN total_collected + response.data.elements
                                   ELSE total_collected
             /\ IF IsActivitiesEndpoint(meta_idx) /\ response.success
                THEN /\ pc' = "done"
                     /\ result' = total_collected'
                     /\ UNCHANGED meta_idx
                ELSE /\ pc' = "loop"
                     /\ meta_idx' = meta_idx + 1
                     /\ UNCHANGED result
    /\ ReturnedFromRequest
    /\ UNCHANGED <<config, server, prior, last_sync, call, page, response, now, last_request_time,
                   request_count, request_window_start, requests, sent, warned, tool,
                   domain, written, stages, fault, trail, pipeline, stage>>

collect_metadata == MetadataRequest \/ MetadataStore

-----------------------------------------------------------------------------
(* run_collection *)

\* The calls run_collection(None, incremental) makes, in its order.
CollectMethods(incremental) ==
    << [op |-> "collect_metadata", arg |-> None, incremental |-> TRUE],
       [op |-> "collect_projects", arg |-> None, incremental |-> TRUE],
       [op |-> "collect_users", arg |-> None, incremental |-> TRUE],
       [op |-> "collect_work_packages", arg |-> None, incremental |-> incremental],
       [op |-> "collect_time_entries", arg |-> None, incremental |-> incremental],
       [op |-> "collect_versions", arg |-> None, incremental |-> TRUE] >>

\* run_collection has ended, by its return or by an exception.
Ended(incremental) ==
    [op |-> "run_collection", arg |-> None, incremental |-> incremental, rest |-> <<>>]

\* The first call of run_collection, the others and the end to follow.
RunCollection(incremental) ==
    [op |-> CollectMethods(incremental)[1].op,
     arg |-> CollectMethods(incremental)[1].arg,
     incremental |-> CollectMethods(incremental)[1].incremental,
     rest |-> Tail(CollectMethods(incremental)) \o <<Ended(incremental)>>]

\* run_collection between two collect methods and at its end. The method
\* that has returned gives its entry of collection_stats and the next one is
\* called on the same collector: its clock, its limiter and the raw tables
\* are what the earlier methods left. After collect_versions run_collection
\* returns collection_stats; an exception of a method is logged and raised
\* again (`except Exception: ... raise`), no further method is called.
run_collection ==
    /\ call.rest # <<>>
    /\ pc \in {"done", "raised"}
    /\ LET next == Head(call.rest)
           step == [method |-> call.op,
                    error |-> IF pc = "raised" THEN result ELSE "none",
                    stat |-> IF pc = "raised" THEN 0 ELSE result]
           error == IF pc = "raised" THEN result ELSE "none"
           end == [method |-> "run_collection", error |-> error, stat |-> 0]
           collection_stats(steps) ==
                [metadata |-> steps[1].stat, projects |-> steps[2].stat,
                 users |-> steps[3].stat, work_packages |-> steps[4].stat,
                 time_entries |-> steps[5].stat, versions |-> steps[6].stat]
       IN  IF pc = "raised" \/ next.op = "run_collection"
           THEN /\ call' = Ended(call.rest[Len(call.rest)].incremental)
                /\ trail' = Append(Append(trail, step), end)
                /\ result' = IF pc = "raised" THEN result
                              ELSE collection_stats(Append(trail, step))
                /\ UNCHANGED <<pc, page, total_collected, meta_idx, last_sync, warned,
                               requests>>
           ELSE /\ call' = [op |-> next.op, arg |-> next.arg,
                            incremental |-> next.incremental, rest |-> Tail(call.rest)]
                /\ trail' = Append(trail, step)
                /\ result' = "running"
                /\ pc' = "loop"
                /\ page' = 1
                /\ total_collected' = 0
                /\ meta_idx' = 1
                /\ last_sync' = None
                /\ warned' = FALSE
                /\ requests' = <<>>
    /\ UNCHANGED <<config, server, prior, response, req, attempts, sleeps, now,
                   last_request_time, request_count, request_window_start, raw, sent,
                   tool, domain, written, stages, fault, pipeline, stage>>

-----------------------------------------------------------------------------
(* Extractor: from stored pages to tool rows *)

ToolTables ==
    { "_tool_openproject_work_packages", "_tool_openproject_projects",
      "_tool_openproject_users", "_tool_openproject_time_entries",
      "_tool_openproject_statuses", "_tool_openproject_types",
      "_tool_openproject_priorities", "_tool_openproject_activities" }

\* The tool tables of the schema: those above and the versions, which no
\* extract method writes.
ToolStore == ToolTables \cup {"_tool_openproject_versions"}

\* Raw table a tool table is extracted from.
RawSource(tool_table) ==
    CASE tool_table = "_tool_openproject_work_packages" -> "_raw_openproject_api_work_packages"
      [] tool_table = "_tool_openproject_projects" -> "_raw_openproject_api_projects"
      [] tool_table = "_tool_openproject_users" -> "_raw_openproject_api_users"
      [] tool_table = "_tool_openproject_time_entries" -> "_raw_openproject_api_time_entries"
      [] tool_table = "_tool_openproject_statuses" -> "_raw_openproject_api_statuses"
      [] tool_table = "_tool_openproject_types" -> "_raw_openproject_api_types"
      [] tool_table = "_tool_openproject_priorities" -> "_raw_openproject_api_priorities"
      [] tool_table = "_tool_openproject_activities" -> "_raw_openproject_api_activities"

\* Native ids of the elements of a page the collector stored, in the order of
\* the page. A body that names its ids holds those, an entity as often as it
\* is named; any other body holds the next entities of a collection that the
\* API numbers 1, 2, ... and serves in that order.
ElementIds(row) ==
    IF row.data = NULL THEN <<>>
    ELSE IF "ids" \in DOMAIN row.data THEN row.data.ids
    ELSE LET first == IF row.params.offset = None THEN 0
                      ELSE (row.params.offset - 1) * row.params.pageSize
         IN  [i \in 1..row.data.elements |-> first + i]

\* The native ids of the elements of a page.
IdsOf(row) == { ElementIds(row)[i] : i \in 1..Len(ElementIds(row)) }

\* Positions of the rows a stage reads from a raw table:
\* SELECT ... WHERE connection_id = %s AND data IS NOT NULL
Selected(rows, connection_id) ==
    { k \in 1..Len(rows) : rows[k].connection_id = connection_id /\ rows[k].data # NULL }

RECURSIVE Ascending(_)
Ascending(S) ==
    IF S = {} THEN <<>>
    ELSE LET m == CHOOSE x \in S : \A y \in S : x <= y
         IN  <<m>> \o Ascending(S \ {m})

Reverse(s) == [i \in 1..Len(s) |-> s[Len(s) + 1 - i]]

ReadsAllRows == {"_tool_openproject_work_packages", "_tool_openproject_time_entries"}

\* The raw rows an extract method goes through, in its order: work packages in
\* LIMIT/OFFSET batches in table order, time entries ORDER BY created_at DESC,
\* every other method ORDER BY created_at DESC LIMIT 1.
ReadOrder(tool_table, rows, connection_id) ==
    LET sel == Ascending(Selected(rows, connection_id))
    IN  CASE tool_table = "_tool_openproject_work_packages" -> sel
          [] tool_table = "_tool_openproject_time_entries" -> Reverse(sel)
          [] OTHER -> IF sel = <<>> THEN <<>> ELSE <<sel[Len(sel)]>>

\* An entry of _links: the number its href ends with, None for a href that
\* ends with no number (int(parts[-1]) raises ValueError, the id stays None),
\* and its title. An entry that has a title and no href (or a href that is
\* None or empty) is the record [title |-> ...] without the field href. NULL
\* is an entry that is JSON null. Missing is the key `project` not being in
\* _links; for any other key links.get(key) gives None either way, and NULL
\* stands for both.
Link(id, title) == [href |-> id, title |-> title]

Missing == [missing |-> TRUE]

\* An element that carries its id and, as every work package the API serves,
\* the link to its project, and no other key: element.get(key) gives None, or
\* the default the method names.
BareElement(tool_table, id) ==
    CASE tool_table = "_tool_openproject_work_packages" ->
            [id |-> id, updatedAt |-> None, estimatedTime |-> NULL, spentTime |-> NULL,
             project |-> Link(1, "Demo"), type |-> NULL, status |-> NULL,
             assignee |-> NULL, responsible |-> NULL, author |-> NULL, version |-> NULL]
      [] tool_table = "_tool_openproject_projects" -> [id |-> id, identifier |-> ""]
      [] tool_table = "_tool_openproject_users" -> [id |-> id, login |-> ""]
      [] tool_table = "_tool_openproject_time_entries" -> [id |-> id, hours |-> NULL]
      [] tool_table = "_tool_openproject_statuses" -> [id |-> id, isClosed |-> 0]
      [] OTHER -> [id |-> id]

\* json.loads(raw_record['data']) followed by
\* data.get('_embedded', {}).get('elements', []): the elements, or the
\* exception raised on the way. A payload is one of
\*   [elements |-> n, total |-> t]   a page of n elements that carry ids only
\*                                   (with ids |-> <<...>>: those ids),
\*   [embedded |-> <<e1, ...>>]      an object whose _embedded.elements is given,
\*   [absent |-> "_embedded"]        an object without the key _embedded,
\*   [broken |-> "JSONDecodeError"]  text that is not JSON,
\*   [broken |-> "AttributeError"]   JSON that is no object (an array, a number).
ParsedElements(tool_table, row) ==
    CASE "broken" \in DOMAIN row.data -> [error |-> row.data.broken, elements |-> <<>>]
      [] "absent" \in DOMAIN row.data -> [error |-> "none", elements |-> <<>>]
      [] "embedded" \in DOMAIN row.data -> [error |-> "none", elements |-> row.data.embedded]
      [] OTHER ->
            LET ids == ElementIds(row)
            IN  [error |-> "none",
                 elements |-> [i \in 1..Len(ids) |-> BareElement(tool_table, ids[i])]]

\* A Python float is an IEEE 754 double: 53 significant bits, every operation
\* rounded to the nearest double, ties to even. A float x >= 0 is held as five
\* limbs of 18 bits, x = x[1] + x[2] / 2^18 + ... + x[5] / 2^72, which is
\* exact for every double from 2^(-19) up to 2^18 and for 0.
Double == [mantissa |-> 53, limb |-> 18, limbs |-> 5]

LimbBase == Pow2(Double.limb)

\* The limbs of x, each computed once.
Limbs(x) == <<x[1], x[2], x[3], x[4], x[5]>>

\* float(n) of a string of digits n
float(n) == <<n, 0, 0, 0, 0>>

\* Remainder of n / m after limb i of the quotient.
RECURSIVE Remainder(_, _, _)
Remainder(n, m, i) ==
    IF i = 1 THEN n % m ELSE (Remainder(n, m, i - 1) * LimbBase) % m

\* n / m, cut after the last limb.
Quotient(n, m) ==
    Limbs([i \in 1..Double.limbs |->
              IF i = 1 THEN n \div m ELSE (Remainder(n, m, i - 1) * LimbBase) \div m])

\* Limb i of a + b before the carry into the limb above is taken off.
RECURSIVE Column(_, _, _)
Column(a, b, i) ==
    a[i] + b[i] + (IF i = Double.limbs THEN 0 ELSE Column(a, b, i + 1) \div LimbBase)

\* a + b, exact.
Sum(a, b) ==
    Limbs([i \in 1..Double.limbs |->
              IF i = 1 THEN Column(a, b, i) ELSE Column(a, b, i) % LimbBase])

\* Limb i of a * n before the carry into the limb above is taken off.
RECURSIVE ProductColumn(_, _, _)
ProductColumn(a, n, i) ==
    a[i] * n + (IF i = Double.limbs THEN 0 ELSE ProductColumn(a, n, i + 1) \div LimbBase)

\* a * n for a natural n, exact.
Product(a, n) ==
    Limbs([i \in 1..Double.limbs |->
              IF i = 1 THEN ProductColumn(a, n, i) ELSE ProductColumn(a, n, i) % LimbBase])

\* Position of the lowest bit of limb i, the bits counted from 0 at the end.
LowBit(i) == Double.limb * (Double.limbs - i)

Bit(x, j) == (x[Double.limbs - (j \div Double.limb)] \div Pow2(j % Double.limb)) % 2

\* The highest limb of x that is not 0.
TopLimb(x) == CHOOSE i \in 1..Double.limbs : x[i] # 0 /\ \A h \in 1..(i - 1) : x[h] = 0

\* Number of bits of x from its highest 1 down.
BitLength(x) ==
    IF \A i \in 1..Double.limbs : x[i] = 0 THEN 0
    ELSE LowBit(TopLimb(x)) + CHOOSE e \in 1..Double.limb :
                                 Pow2(e - 1) <= x[TopLimb(x)] /\ x[TopLimb(x)] < Pow2(e)

\* Whether x has a 1 below bit k - 1.
Below(x, k) ==
    \E i \in 1..Double.limbs :
        IF LowBit(i) + Double.limb <= k - 1 THEN x[i] # 0
        ELSE LowBit(i) < k - 1 /\ x[i] % Pow2(k - 1 - LowBit(i)) # 0

\* x with the bits below bit k cleared.
Truncated(x, k) ==
    Limbs([i \in 1..Double.limbs |->
              IF LowBit(i) >= k THEN x[i]
              ELSE IF LowBit(i) + Double.limb <= k THEN 0
              ELSE x[i] - (x[i] % Pow2(k - LowBit(i)))])

\* 2^k in the place of bit k.
Unit(k) ==
    Limbs([i \in 1..Double.limbs |->
              IF LowBit(i) <= k /\ k < LowBit(i) + Double.limb
              THEN Pow2(k - LowBit(i)) ELSE 0])

\* x, or x and a rest below its last limb when inexact, rounded to a multiple
\* of 2^k, ties to even; x itself when k <= 0.
RoundAt(x, k, inexact) ==
    IF k <= 0 THEN x
    ELSE IF Bit(x, k - 1) = 1 /\ (inexact \/ Below(x, k) \/ Bit(x, k) = 1)
    THEN Sum(Truncated(x, k), Unit(k))
    ELSE Truncated(x, k)

\* The double nearest to x.
RoundToDouble(x, inexact) == RoundAt(x, BitLength(x) - Double.mantissa, inexact)

\* float(n) / m
float_div(n, m) == RoundToDouble(Quotient(n, m), Remainder(n, m, Double.limbs) # 0)

\* a + b of two floats
float_add(a, b) == RoundToDouble(Sum(a, b), FALSE)

\* a * n of a float and an int
float_mul(a, n) == RoundToDouble(Product(a, n), FALSE)

\* _parse_duration on a PT#H#M#S token, given as its three numbers: the float
\* hours + (minutes / 60) + (seconds / 3600), None `if not duration_str`.
_parse_duration(duration_str) ==
    IF duration_str = NULL THEN NULL
    ELSE [float |-> float_add(float_add(float(duration_str.H),
                                        float_div(duration_str.M, 60)),
                              float_div(duration_str.S, 3600))]

\* _extract_link_info: the number that ends the href, None without one or
\* without href (`if href:`), and the title; (None, None) `if not link_data`.
_extract_link_info(link_data) ==
    IF link_data \in {NULL, Missing} THEN [id |-> None, title |-> NoString]
    ELSE [id |-> IF "href" \in DOMAIN link_data THEN link_data.href ELSE None,
          title |-> link_data.title]

\* _extract_work_package_data: the dictionary of the columns of a work package
\* row; `version` stands for the columns copied from the element of raw row k
\* as they are (subject, description, all_fields). The key project_identifier
\* is set only `if project_link.get('href')`. With a project entry that is
\* JSON null, links.get('project', {}) is None and project_link.get raises
\* AttributeError inside the method's `try`: `except Exception: return None`.
_extract_work_package_data(wp_data, connection_id, k) ==
    LET Checked(wp) ==
            IF wp_data.project = NULL THEN NULL
            ELSE IF "href" \in DOMAIN wp_data.project THEN wp
            ELSE [key \in DOMAIN wp \ {"project_identifier"} |-> wp[key]]
    IN  Checked([connection_id |-> connection_id,
                 id |-> wp_data.id,
                 version |-> k,
                 updated_at |-> wp_data.updatedAt,
                 estimated_hours |-> _parse_duration(wp_data.estimatedTime),
                 spent_hours |-> _parse_duration(wp_data.spentTime),
                 project_id |-> _extract_link_info(wp_data.project).id,
                 project_identifier |-> NoString,
                 version_id |-> _extract_link_info(wp_data.version).id,
                 type_name |-> _extract_link_info(wp_data.type).title,
                 status_id |-> _extract_link_info(wp_data.status).id,
                 status_name |-> _extract_link_info(wp_data.status).title,
                 status_is_closed |-> 0,
                 assignee_id |-> _extract_link_info(wp_data.assignee).id,
                 assignee_login |-> NoString,
                 responsible_id |-> _extract_link_info(wp_data.responsible).id,
                 responsible_login |-> NoString,
                 author_id |-> _extract_link_info(wp_data.author).id,
                 author_login |-> NoString])

\* The row an extract method builds from one element of raw row k.
ToolRow(tool_table, element, connection_id, k) ==
    CASE tool_table = "_tool_openproject_work_packages" ->
            _extract_work_package_data(element, connection_id, k)
      [] tool_table = "_tool_openproject_projects" ->
            [connection_id |-> connection_id, id |-> element.id, version |-> k,
             identifier |-> element.identifier]
      [] tool_table = "_tool_openproject_users" ->
            [connection_id |-> connection_id, id |-> element.id, version |-> k,
             login |-> element.login]
      [] tool_table = "_tool_openproject_time_entries" ->
            [connection_id |-> connection_id, id |-> element.id, version |-> k,
             hours |-> _parse_duration(element.hours)]
      [] tool_table = "_tool_openproject_statuses" ->
            [connection_id |-> connection_id, id |-> element.id, version |-> k,
             is_closed |-> element.isClosed]
      [] OTHER ->
            [connection_id |-> connection_id, id |-> element.id, version |-> k]

\* A statement an extract method issues, or the exception that ends it.
Statement(op, row, error) == [op |-> op, row |-> row, error |-> error]

\* cursor.execute(query, row) of an INSERT whose VALUES name the columns as
\* %(column)s. A work package dictionary without the key project_identifier
\* makes the pure Python cursor raise KeyError before anything is sent; the
\* cursor of the C extension leaves the placeholder in the statement, which
\* the server rejects (ProgrammingError).
Execute(tool_table, row, use_pure) ==
    IF tool_table = "_tool_openproject_work_packages"
       /\ "project_identifier" \notin DOMAIN row
    THEN Statement("raise", NULL, IF use_pure THEN "KeyError" ELSE "ProgrammingError")
    ELSE Statement("insert", row, "none")

\* `for element in elements:` over the elements of raw row k: one INSERT per
\* element, up to the first that raises; extract_work_packages and
\* extract_time_entries skip an element without id and one whose id is in
\* `processed`, and extract_work_packages one for which
\* _extract_work_package_data returned None (`if wp_data:`), whose id does not
\* join `processed`.
RECURSIVE ElementInserts(_, _, _, _, _, _)
ElementInserts(tool_table, elements, k, connection_id, processed, use_pure) ==
    IF elements = <<>> THEN <<>>
    ELSE LET element == Head(elements)
             Rest(seen) == ElementInserts(tool_table, Tail(elements), k, connection_id,
                                          seen, use_pure)
             Executed(stmt) == IF stmt.op = "raise" THEN <<stmt>>
                               ELSE <<stmt>> \o Rest(processed \cup {element.id})
             Built(row) == IF row = NULL THEN Rest(processed)
                           ELSE Executed(Execute(tool_table, row, use_pure))
         IN  IF tool_table \in ReadsAllRows
                /\ (~Truthy(element.id) \/ element.id \in processed)
             THEN Rest(processed)
             ELSE Built(ToolRow(tool_table, element, connection_id, k))

\* Native ids of the INSERTs among statements.
InsertedIds(stmts) ==
    { stmts[i].row.id : i \in { j \in 1..Len(stmts) : stmts[j].op = "insert" } }

\* `for raw_record in raw_records:` of extract_work_packages and
\* extract_time_entries over the raw rows at positions `order`: a row that is
\* not JSON, or an element of it that raises KeyError, is logged and the rest
\* of the row skipped (except (json.JSONDecodeError, KeyError): continue); any
\* other exception leaves the loop.
RECURSIVE ElementLoop(_, _, _, _, _, _)
ElementLoop(tool_table, rows, order, connection_id, processed, use_pure) ==
    IF order = <<>> THEN <<>>
    ELSE LET k == Head(order)
             parsed == ParsedElements(tool_table, rows[k])
             Executed(stmts) ==
                SelectSeq(stmts, LAMBDA x : x.error # "KeyError")
                \o ElementLoop(tool_table, rows, Tail(order), connection_id,
                               processed \cup InsertedIds(stmts), use_pure)
         IN  CASE parsed.error = "none" ->
                    Executed(ElementInserts(tool_table, parsed.elements, k, connection_id,
                                            processed, use_pure))
               [] parsed.error = "JSONDecodeError" ->
                    ElementLoop(tool_table, rows, Tail(order), connection_id, processed,
                                use_pure)
               [] OTHER -> <<Statement("raise", NULL, parsed.error)>>

\* Raw rows per batch of extract_work_packages.
batch_size == 50

\* `while offset < total_records:` of extract_work_packages: the raw rows in
\* batches of batch_size, a commit after each batch.
RECURSIVE BatchLoop(_, _, _, _, _, _)
BatchLoop(tool_table, rows, order, connection_id, processed, use_pure) ==
    IF order = <<>> THEN <<>>
    ELSE LET n == IF Len(order) < batch_size THEN Len(order) ELSE batch_size
             Batch(stmts) ==
                stmts \o <<Statement("commit", NULL, "none")>>
                \o BatchLoop(tool_table, rows, SubSeq(order, n + 1, Len(order)),
                             connection_id, processed \cup InsertedIds(stmts), use_pure)
         IN  Batch(ElementLoop(tool_table, rows, SubSeq(order, 1, n), connection_id,
                               processed, use_pure))

\* The statements of one extract method, in the order it issues them.
\* extract_work_packages deletes, then inserts and commits batch by batch;
\* extract_time_entries deletes, inserts and commits once; the methods that
\* read the latest raw row return 0 without one, parse it, and only then
\* delete, insert and commit.
Statements(tool_table, store, connection_id, use_pure) ==
    LET rows == store[RawSource(tool_table)]
        order == ReadOrder(tool_table, rows, connection_id)
        delete == Statement("delete", NULL, "none")
        commit == Statement("commit", NULL, "none")
    IN  CASE tool_table = "_tool_openproject_work_packages" ->
                <<delete>> \o BatchLoop(tool_table, rows, order, connection_id, {},
                                        use_pure)
          [] tool_table = "_tool_openproject_time_entries" ->
                <<delete>> \o ElementLoop(tool_table, rows, order, connection_id, {},
                                          use_pure)
                \o <<commit>>
          [] OTHER ->
                IF order = <<>> THEN <<>>
                ELSE LET parsed == ParsedElements(tool_table, rows[order[1]])
                     IN  IF parsed.error # "none"
                         THEN <<Statement("raise", NULL, parsed.error)>>
                         ELSE <<delete>>
                              \o ElementInserts(tool_table, parsed.elements, order[1],
                                                connection_id, {}, use_pure)
                              \o <<commit>>

\* The database failing: the at-th INSERT of the statements raises instead
\* (at = 0: none does).
RECURSIVE WithFault(_, _)
WithFault(stmts, at) ==
    IF stmts = <<>> \/ at = 0 THEN stmts
    ELSE IF Head(stmts).op # "insert" THEN <<Head(stmts)>> \o WithFault(Tail(stmts), at)
    ELSE IF at = 1 THEN <<Statement("raise", NULL, "DatabaseError")>>
    ELSE <<Head(stmts)>> \o WithFault(Tail(stmts), at - 1)

\* Variant of Upsert: the key is the id alone.
RECURSIVE UpsertById(_, _)
UpsertById(table, inserts) ==
    IF inserts = <<>> THEN table
    ELSE LET r == Head(inserts)
         IN  UpsertById({ x \in table : x.id # r.id } \cup {r}, Tail(inserts))

\* The row an INSERT ... ON DUPLICATE KEY UPDATE leaves where `old` has the
\* key of the new row r: the listed columns take the new values. The
\* statement of _insert_work_package (its rows have the column status_name)
\* does not list the key, project_id, status_id, assignee_id, responsible_id,
\* author_id and version_id, which the row keeps; the statements of the other
\* tables list every column.
OnDuplicate(old, r) ==
    LET kept == {"connection_id", "id", "project_id", "status_id", "assignee_id",
                 "responsible_id", "author_id", "version_id"}
    IN  IF "status_name" \in DOMAIN r
        THEN [column \in DOMAIN old |->
                IF column \in kept \/ column \notin DOMAIN r THEN old[column]
                ELSE r[column]]
        ELSE r

\* INSERT ... ON DUPLICATE KEY UPDATE, key (connection_id, id), one per element
\* of `inserts`.
RECURSIVE Upsert(_, _)
Upsert(table, inserts) ==
    IF inserts = <<>> THEN table
    ELSE LET r == Head(inserts)
             same == { x \in table : x.connection_id = r.connection_id /\ x.id = r.id }
         IN  Upsert((table \ same)
                    \cup (IF same = {} THEN {r} ELSE { OnDuplicate(x, r) : x \in same }),
                    Tail(inserts))

\* Variant of Transaction: what was executed before an exception stays in the
\* table, as with autocommit.
RECURSIVE TransactionNoRollback(_, _, _, _, _)
TransactionNoRollback(stmts, committed, working, connection_id, done) ==
    IF stmts = <<>> THEN [table |-> working, written |-> done, error |-> "none"]
    ELSE LET s == Head(stmts)
         IN  CASE s.op = "delete" ->
                    TransactionNoRollback(Tail(stmts), committed,
                        { r \in working : r.connection_id # connection_id },
                        connection_id, done)
               [] s.op = "insert" ->
                    TransactionNoRollback(Tail(stmts), committed,
                        Upsert(working, <<s.row>>), connection_id, Append(done, s.row))
               [] s.op = "commit" ->
                    TransactionNoRollback(Tail(stmts), working, working, connection_id,
                                          done)
               [] OTHER -> [table |-> working, written |-> done, error |-> s.error]

\* The statements of an extract method run on one connection with autocommit
\* off: `committed` is the table as stored, `working` the table as the session
\* sees it. DELETE FROM tool_table WHERE connection_id = %s and the INSERTs
\* change `working`; connection.commit() stores it; an exception reaches
\* `except Exception: connection.rollback(); raise`; what is not committed when
\* the connection closes is lost.
RECURSIVE Transaction(_, _, _, _, _)
Transaction(stmts, committed, working, connection_id, done) ==
    IF stmts = <<>> THEN [table |-> committed, written |-> done, error |-> "none"]
    ELSE LET s == Head(stmts)
         IN  CASE s.op = "delete" ->
                    Transaction(Tail(stmts), committed,
                        { r \in working : r.connection_id # connection_id },
                        connection_id, done)
               [] s.op = "insert" ->
                    Transaction(Tail(stmts), committed, Upsert(working, <<s.row>>),
                                connection_id, Append(done, s.row))
               [] s.op = "commit" ->
                    Transaction(Tail(stmts), working, working, connection_id, done)
               [] OTHER -> [table |-> committed, written |-> done, error |-> s.error]

\* One extract method on a tool table `old`, the database failing at its
\* at-th INSERT: the table it leaves, the rows it inserted, the exception it
\* raised.
Extracted(tool_table, store, old, connection_id, at, use_pure) ==
    Transaction(WithFault(Statements(tool_table, store, connection_id, use_pure), at),
                old, old, connection_id, <<>>)

\* The statements that follow the n-th commit.
RECURSIVE AfterCommits(_, _)
AfterCommits(stmts, n) ==
    IF n = 0 \/ stmts = <<>> THEN stmts
    ELSE AfterCommits(Tail(stmts), IF Head(stmts).op = "commit" THEN n - 1 ELSE n)

\* The statements up to the first commit, the commit included.
RECURSIVE UpToCommit(_)
UpToCommit(stmts) ==
    IF stmts = <<>> THEN <<>>
    ELSE IF Head(stmts).op = "commit" THEN <<Head(stmts)>>
    ELSE <<Head(stmts)>> \o UpToCommit(Tail(stmts))

\* One transaction of an extract method: what it executes from the state the
\* database holds after `offset` raw rows (offset / batch_size commits) up to
\* its next commit, the exception that ends it, or its return. `done` are the
\* rows inserted before; the error "running" says that the method goes on
\* with another batch.
ExtractedBatch(tool_table, store, old, done, offset, connection_id, at, use_pure) ==
    LET Result(out, more) ==
            [table |-> out.table, written |-> out.written,
             error |-> IF out.error = "none" /\ more THEN "running" ELSE out.error]
        Batch(rest) ==
            Result(Transaction(UpToCommit(rest), old, old, connection_id, done),
                   AfterCommits(rest, 1) # <<>>)
    IN  Batch(AfterCommits(WithFault(Statements(tool_table, store, connection_id, use_pure),
                                     at),
                           offset \div batch_size))

-----------------------------------------------------------------------------
(* Extractor: update_references and run_extraction *)

NoFault == [method |-> "none", at |-> 0]

\* run_pipeline.main has not been called: the stages are run on their own.
\* Once called, main holds the component whose process runs, the outcomes of
\* those that ended and, at its end, its exit code.
Idle == [called |-> FALSE, running |-> {}, outcomes |-> <<>>, code |-> None]

\* The value `UPDATE wp JOIN other ON wp.<ref> = other.id AND wp.connection_id
\* = other.connection_id SET wp.<column> = other.<field>` gives a row: that
\* of the joined row, or the old one when nothing joins or the reference is
\* NULL.
Joined(other, connection_id, ref, field, old) ==
    LET match == { o \in other : o.connection_id = connection_id /\ o.id = ref }
    IN  IF ref = None \/ match = {} THEN old
        ELSE (CHOOSE o \in match : TRUE)[field]

\* Variant of ReferenceUpdate: the UPDATEs lack `WHERE wp.connection_id = %s`.
ReferenceUpdateAnyConnection(tables, connection_id, wp) ==
    [wp EXCEPT
        !.assignee_login = Joined(tables["_tool_openproject_users"], wp.connection_id,
                                  wp.assignee_id, "login", @),
        !.responsible_login = Joined(tables["_tool_openproject_users"], wp.connection_id,
                                     wp.responsible_id, "login", @),
        !.author_login = Joined(tables["_tool_openproject_users"], wp.connection_id,
                                wp.author_id, "login", @),
        !.project_identifier = Joined(tables["_tool_openproject_projects"],
                                      wp.connection_id, wp.project_id, "identifier", @),
        !.status_is_closed = Joined(tables["_tool_openproject_statuses"],
                                    wp.connection_id, wp.status_id, "is_closed", @)]

\* The five UPDATEs of update_references on one work package row.
ReferenceUpdate(tables, connection_id, wp) ==
    IF wp.connection_id # connection_id THEN wp
    ELSE [wp EXCEPT
            !.assignee_login = Joined(tables["_tool_openproject_users"], connection_id,
                                      wp.assignee_id, "login", @),
            !.responsible_login = Joined(tables["_tool_openproject_users"], connection_id,
                                         wp.responsible_id, "login", @),
            !.author_login = Joined(tables["_tool_openproject_users"], connection_id,
                                    wp.author_id, "login", @),
            !.project_identifier = Joined(tables["_tool_openproject_projects"],
                                          connection_id, wp.project_id, "identifier", @),
            !.status_is_closed = Joined(tables["_tool_openproject_statuses"],
                                        connection_id, wp.status_id, "is_closed", @)]

\* update_references: the UPDATEs in one transaction, committed at the end;
\* the database failing at one of them (at > 0) rolls all of them back.
update_references(tables, connection_id, at) ==
    IF at > 0 THEN [tool |-> tables, error |-> "DatabaseError"]
    ELSE [tool |-> [tables EXCEPT !["_tool_openproject_work_packages"] =
                        { ReferenceUpdate(tables, connection_id, wp) : wp \in @ }],
          error |-> "none"]

\* The extract methods in the order run_extraction calls them. The four
\* methods of extract_metadata run inside its `try: ... except Exception:`
\* that logs and goes on to the next.
ExtractMethods ==
    << [method |-> "_extract_statuses", table |-> "_tool_openproject_statuses",
        caught |-> TRUE],
       [method |-> "_extract_types", table |-> "_tool_openproject_types",
        caught |-> TRUE],
       [method |-> "_extract_priorities", table |-> "_tool_openproject_priorities",
        caught |-> TRUE],
       [method |-> "_extract_activities", table |-> "_tool_openproject_activities",
        caught |-> TRUE],
       [method |-> "extract_projects", table |-> "_tool_openproject_projects",
        caught |-> FALSE],
       [method |-> "extract_users", table |-> "_tool_openproject_users",
        caught |-> FALSE],
       [method |-> "extract_work_packages", table |-> "_tool_openproject_work_packages",
        caught |-> FALSE],
       [method |-> "extract_time_entries", table |-> "_tool_openproject_time_entries",
        caught |-> FALSE] >>

\* No stage is running.
Stopped == [run |-> "none", i |-> 0, offset |-> 0]

\* The next transaction of run_extraction, which is at its method i (past the
\* last: at update_references) and, within extract_work_packages, at `offset`:
\* the tables, the rows inserted and the methods that returned or raised,
\* after it, and where run_extraction is then. An exception that is not
\* caught ends the run.
ExtractStep(i, offset, store, tables, inserted, steps, connection_id, plan, use_pure) ==
    LET References(out) ==
            [tool |-> out.tool, written |-> inserted,
             trail |-> Append(steps, [method |-> "update_references",
                                      error |-> out.error]),
             stage |-> Stopped]
        Method(m, out) ==
            [tool |-> [tables EXCEPT ![m.table] = out.table],
             written |-> [inserted EXCEPT ![m.table] = out.written],
             trail |-> IF out.error = "running" THEN steps
                       ELSE Append(steps, [method |-> m.method, error |-> out.error]),
             stage |-> IF out.error = "running"
                       THEN [run |-> "run_extraction", i |-> i,
                             offset |-> offset + batch_size]
                       ELSE IF out.error # "none" /\ ~m.caught THEN Stopped
                       ELSE [run |-> "run_extraction", i |-> i + 1, offset |-> 0]]
        Batch(m) ==
            Method(m, ExtractedBatch(m.table, store, tables[m.table], inserted[m.table],
                                     offset, connection_id,
                                     IF plan.method = m.method THEN plan.at ELSE 0,
                                     use_pure))
    IN  IF i > Len(ExtractMethods)
        THEN References(update_references(tables, connection_id,
                            IF plan.method = "update_references" THEN plan.at ELSE 0))
        ELSE Batch(ExtractMethods[i])

\* The body of run_extraction from the method at position i on, as a whole:
\* its transactions one after the other.
RECURSIVE Extraction(_, _, _, _, _, _, _, _, _)
Extraction(i, offset, store, tables, inserted, steps, connection_id, plan, use_pure) ==
    LET Rest(out) ==
            IF out.stage = Stopped
            THEN [tool |-> out.tool, written |-> out.written, trail |-> out.trail]
            ELSE Extraction(out.stage.i, out.stage.offset, store, out.tool, out.written,
                            out.trail, connection_id, plan, use_pure)
    IN  Rest(ExtractStep(i, offset, store, tables, inserted, steps, connection_id, plan,
                         use_pure))

\* The latest stage run ended without raising.
Returned(steps) == steps # <<>> /\ steps[Len(steps)].error = "none"

\* One transaction of OpenProjectExtractor.run_extraction of the collector's
\* connection. Under run_pipeline.main it starts in the process main has
\* started for the extractor; run on its own, it starts once the collector has
\* returned (a method called on its own, or run_collection) or after a
\* converter run. `consuming` is whether the run deletes the raw rows it has
\* read.
ExtractorStep(consuming) ==
    /\ pc = "done"
    /\ call.rest = <<>>
    /\ \/ stage.run = "run_extraction"
       \/ /\ stage = Stopped
          /\ IF pipeline.called
             THEN pipeline.running = {"extractor"} /\ stages = <<"run_collection">>
             ELSE Len(stages) % 2 = 0 /\ Len(stages) < 2 * MaxRuns
    /\ LET Commit(out) ==
                /\ tool' = out.tool
                /\ written' = out.written
                /\ trail' = out.trail
                /\ stage' = out.stage
                /\ stages' = IF out.stage = Stopped THEN Append(stages, "run_extraction")
                             ELSE stages
                /\ raw' = IF consuming /\ out.stage = Stopped
                          THEN [t \in RawTables |->
                                  SelectSeq(raw[t],
                                            LAMBDA r : ~(r.connection_id = ConnectionId
                                                         /\ r.data # NULL))]
                          ELSE raw
       IN  Commit(ExtractStep(IF stage = Stopped THEN 1 ELSE stage.i,
                              IF stage = Stopped THEN 0 ELSE stage.offset,
                              raw, tool,
                              IF stage = Stopped THEN [t \in ToolTables |-> <<>>]
                              ELSE written,
                              IF stage = Stopped THEN <<>> ELSE trail,
                              ConnectionId, fault, config.use_pure))
    /\ UNCHANGED <<config, server, prior, last_sync, call, pc, page, total_collected,
                   response, meta_idx, req, attempts, sleeps, now, last_request_time,
                   request_count, request_window_start, requests, sent, warned, result,
                   domain, fault, pipeline>>

\* Variant of run_extraction: the raw rows it has read are deleted.
run_extraction_consuming == ExtractorStep(TRUE)

\* OpenProjectExtractor.run_extraction, transaction by transaction.
run_extraction == ExtractorStep(FALSE)

-----------------------------------------------------------------------------
(* Domain Converter *)

DomainTables ==
    {"issues", "boards", "accounts", "issue_worklogs", "board_issues", "sprints",
     "sprint_issues"}

\* Python str() of a natural number, as a sequence of one-character strings.
RECURSIVE str(_)
str(n) == IF n < 10 THEN <<Digits[n + 1]>> ELSE str(n \div 10) \o <<Digits[(n % 10) + 1]>>

\* Variant of IdPrefix: the pattern ends with the connection id, without the
\* colon after it.
IdPrefixNoColon(kind, connection_id) ==
    <<"openproject", ":", kind, ":">> \o str(connection_id)

\* f"openproject:{kind}:{connection_id}:" : the text before the native id, and
\* the text before the % of the LIKE patterns. The two names are kept whole,
\* the connection id is spelled digit by digit.
IdPrefix(kind, connection_id) ==
    <<"openproject", ":", kind, ":">> \o str(connection_id) \o <<":">>

\* Variant of DomainId: the id depends on the run that computes it.
DomainIdPerRun(kind, connection_id, id) ==
    IdPrefix(kind, connection_id) \o str(id + Len(stages))

\* Variant of DomainId: connection id and native id follow each other without
\* a separator.
DomainIdUnseparated(kind, connection_id, id) ==
    <<"openproject", ":", kind, ":">> \o str(connection_id) \o str(id)

\* f"openproject:{kind}:{connection_id}:{id}"
DomainId(kind, connection_id, id) == IdPrefix(kind, connection_id) \o str(id)

\* id LIKE 'prefix%'
Like(text, prefix) ==
    Len(text) >= Len(prefix) /\ SubSeq(text, 1, Len(prefix)) = prefix

\* self.type_mappings
type_mappings ==
    ("Feature" :> "REQUIREMENT") @@ ("Bug" :> "BUG") @@ ("Support" :> "REQUIREMENT")
    @@ ("Incident" :> "INCIDENT") @@ ("Task" :> "REQUIREMENT") @@ ("Epic" :> "REQUIREMENT")
    @@ ("User Story" :> "REQUIREMENT") @@ ("Defect" :> "BUG")
    @@ ("Enhancement" :> "REQUIREMENT") @@ ("Story" :> "REQUIREMENT")
    @@ ("Summary task" :> "REQUIREMENT") @@ ("Phase" :> "REQUIREMENT")
    @@ ("Milestone" :> "REQUIREMENT")

\* self.status_mappings
status_mappings ==
    ("New" :> "TODO") @@ ("Open" :> "TODO") @@ ("In progress" :> "DOING")
    @@ ("In Progress" :> "DOING") @@ ("In development" :> "DOING")
    @@ ("In Development" :> "DOING") @@ ("In review" :> "DOING")
    @@ ("In Review" :> "DOING") @@ ("Testing" :> "DOING") @@ ("On hold" :> "TODO")
    @@ ("Blocked" :> "TODO") @@ ("Closed" :> "DONE") @@ ("Resolved" :> "DONE")
    @@ ("Done" :> "DONE") @@ ("Completed" :> "DONE") @@ ("Rejected" :> "DONE")
    @@ ("Cancelled" :> "DONE")

\* mapping.get(key, default)
Lookup(mapping, key, default) == IF key \in DOMAIN mapping THEN mapping[key] ELSE default

\* wp.get(name, '') or fallback
OrElse(text, fallback) == IF text = NoString \/ text = "" THEN fallback ELSE text

\* Variant of MappedStatus: the closed flag is not consulted.
MappedStatusByNameOnly(wp) ==
    Lookup(status_mappings, OrElse(wp.status_name, "New"), "TODO")

\* mapped_status: the dictionary entry of the status name, "TODO" without one,
\* and "DONE" whenever the closed flag is set.
MappedStatus(wp) ==
    IF Truthy(wp.status_is_closed) THEN "DONE"
    ELSE Lookup(status_mappings, OrElse(wp.status_name, "New"), "TODO")

\* `if wp.get('estimated_hours'): estimated_minutes = int(wp['estimated_hours']
\* * 60)`, else None: the float product, truncated; None and 0.0 are falsy.
HoursToMinutes(hours) ==
    IF hours # NULL /\ hours.float # float(0) THEN float_mul(hours.float, 60)[1]
    ELSE None

\* estimated_minutes, spent_minutes and remaining_minutes of
\* _convert_work_package_to_issue.
WorkPackageMinutes(wp) ==
    LET estimated_minutes == HoursToMinutes(wp.estimated_hours)
        spent_minutes == HoursToMinutes(wp.spent_hours)
    IN  [estimated_minutes |-> estimated_minutes,
         spent_minutes |-> spent_minutes,
         remaining_minutes |->
            IF Truthy(estimated_minutes) /\ Truthy(spent_minutes)
            THEN (IF estimated_minutes - spent_minutes > 0
                  THEN estimated_minutes - spent_minutes ELSE 0)
            ELSE None]

\* Variant of ResolutionDate: every issue gets its updated timestamp.
ResolutionDateAlways(mapped_status, wp) == wp.updated_at

\* resolution_date of _convert_work_package_to_issue.
ResolutionDate(mapped_status, wp) ==
    IF mapped_status = "DONE" THEN wp.updated_at ELSE None

\* _convert_work_package_to_issue on a row of the SELECT of convert_issues.
_convert_work_package_to_issue(wp, connection_id) ==
    LET original_type == OrElse(wp.type_name, "Task")
        original_status == OrElse(wp.status_name, "New")
        mapped_status == MappedStatus(wp)
    IN  [id |-> DomainId("WorkPackages", connection_id, wp.id),
         version |-> wp.version,
         type |-> Lookup(type_mappings, original_type, "REQUIREMENT"),
         original_type |-> original_type,
         status |-> mapped_status,
         original_status |-> original_status,
         story_point |-> WorkPackageMinutes(wp).estimated_minutes,
         resolution_date |-> ResolutionDate(mapped_status, wp),
         updated_date |-> wp.updated_at]

\* Rows of a tool table that belong to a connection.
OfConnection(table, connection_id) == { r \in table : r.connection_id = connection_id }

\* The SELECT of convert_issues: wp.* with project_identifier and
\* status_is_closed taken from the LEFT JOINs, NULL where nothing joins.
IssueSource(tables, connection_id) ==
    { [wp EXCEPT
         !.project_identifier = Joined(tables["_tool_openproject_projects"],
                                       connection_id, wp.project_id, "identifier",
                                       NoString),
         !.status_is_closed = Joined(tables["_tool_openproject_statuses"],
                                     connection_id, wp.status_id, "is_closed", None)] :
        wp \in OfConnection(tables["_tool_openproject_work_packages"], connection_id) }

\* Variant of Kept: the DELETE removes nothing.
KeptAll(table, column, prefix) == table

\* DELETE FROM table WHERE id LIKE 'prefix%': the rows that stay.
Kept(table, column, prefix) == { x \in table : ~Like(x[column], prefix) }

\* The rows of a SELECT without ORDER BY, in primary key order.
InKeyOrder(rows) ==
    LET ids == Ascending({ r.id : r \in rows })
    IN  [i \in 1..Len(ids) |-> CHOOSE r \in rows : r.id = ids[i]]

\* No statement of a convert method fails.
NoFailure == None

\* The body of a convert method other than convert_issues, run on one
\* connection with autocommit off: the DELETE by prefix leaves `kept`, then one
\* INSERT per row of `rows`, then the commit. The database fails at the DELETE
\* (at = 0) or at the at-th INSERT; nothing catches that but `except Exception:
\* connection.rollback(); raise`, which leaves the table as it was, whichever
\* row it was. The method returns the number of rows selected.
ConvertAll(old, kept, rows, at) ==
    IF at # NoFailure /\ at <= Cardinality(rows)
    THEN [table |-> old, error |-> "DatabaseError", count |-> 0]
    ELSE [table |-> kept \cup rows, error |-> "none", count |-> Cardinality(rows)]

\* Variant of convert_issues: without the try/except around each record.
convert_issues_unguarded(tables, old, connection_id, at) ==
    ConvertAll(old, Kept(old, "id", IdPrefix("WorkPackages", connection_id)),
               { _convert_work_package_to_issue(wp, connection_id) :
                   wp \in IssueSource(tables, connection_id) }, at)

\* convert_issues: delete by prefix, one issue per work package. Each record
\* is converted and inserted inside `try: ... except Exception: continue`, so a
\* record whose INSERT fails is skipped and not counted; a failing DELETE ends
\* the method.
convert_issues(tables, old, connection_id, at) ==
    LET source == IssueSource(tables, connection_id)
        done == IF at = NoFailure \/ at > Cardinality(source) THEN source
                ELSE source \ {InKeyOrder(source)[at]}
    IN  IF at = 0 THEN [table |-> old, error |-> "DatabaseError", count |-> 0]
        ELSE [table |-> Kept(old, "id", IdPrefix("WorkPackages", connection_id))
                        \cup { _convert_work_package_to_issue(wp, connection_id) :
                                 wp \in done },
              error |-> "none", count |-> Cardinality(done)]

\* convert_boards
convert_boards(tables, old, connection_id, at) ==
    ConvertAll(old, Kept(old, "id", IdPrefix("Projects", connection_id)),
               { [id |-> DomainId("Projects", connection_id, project.id),
                  version |-> project.version] :
                   project \in OfConnection(tables["_tool_openproject_projects"],
                                            connection_id) }, at)

\* convert_accounts
convert_accounts(tables, old, connection_id, at) ==
    ConvertAll(old, Kept(old, "id", IdPrefix("Users", connection_id)),
               { [id |-> DomainId("Users", connection_id, user.id),
                  version |-> user.version,
                  user_name |-> user.login] :
                   user \in OfConnection(tables["_tool_openproject_users"],
                                         connection_id) }, at)

\* convert_worklogs
convert_worklogs(tables, old, connection_id, at) ==
    ConvertAll(old, Kept(old, "id", IdPrefix("TimeEntries", connection_id)),
               { [id |-> DomainId("TimeEntries", connection_id, te.id),
                  version |-> te.version,
                  time_spent_minutes |-> HoursToMinutes(te.hours)] :
                   te \in OfConnection(tables["_tool_openproject_time_entries"],
                                       connection_id) }, at)

\* convert_board_issues: delete by board_id prefix, one pair per work package
\* that has a project.
convert_board_issues(tables, old, connection_id, at) ==
    ConvertAll(old, Kept(old, "board_id", IdPrefix("Projects", connection_id)),
               { [board_id |-> DomainId("Projects", connection_id, wp.project_id),
                  issue_id |-> DomainId("WorkPackages", connection_id, wp.id)] :
                   wp \in { r \in OfConnection(tables["_tool_openproject_work_packages"],
                                               connection_id) : r.project_id # None } },
               at)

\* The letters str.lower() changes in a status, which is ASCII text.
Uppercase ==
    <<"A", "B", "C", "D", "E", "F", "G", "H", "I", "J", "K", "L", "M",
      "N", "O", "P", "Q", "R", "S", "T", "U", "V", "W", "X", "Y", "Z">>

Lowercase ==
    <<"a", "b", "c", "d", "e", "f", "g", "h", "i", "j", "k", "l", "m",
      "n", "o", "p", "q", "r", "s", "t", "u", "v", "w", "x", "y", "z">>

\* str.lower(): every upper-case letter replaced by its lower-case one.
RECURSIVE lower(_)
lower(text) ==
    IF text = "" THEN ""
    ELSE LET Letter(c) == IF \E i \in 1..Len(Uppercase) : Uppercase[i] = c
                          THEN Lowercase[CHOOSE i \in 1..Len(Uppercase) : Uppercase[i] = c]
                          ELSE c
         IN  Letter(SubSeq(text, 1, 1)) \o lower(SubSeq(text, 2, Len(text)))

\* status_map.get(version.get('status', '').lower(), 'active')
SprintStatus(status) ==
    LET Mapped(key) == CASE key = "open" -> "active"
                         [] key \in {"locked", "closed"} -> "closed"
                         [] OTHER -> "active"
    IN  Mapped(lower(status))

\* convert_sprints: delete by prefix, one sprint per row of the versions table.
\* The status column is always a key of the row, so a row whose status is
\* NULL gives None, and None.lower() raises AttributeError before the INSERT
\* of that row: rollback, raise.
convert_sprints(tables, old, connection_id, at) ==
    LET versions == OfConnection(tables["_tool_openproject_versions"], connection_id)
        order == InKeyOrder(versions)
        unnamed == { i \in 1..Len(order) : order[i].status = NoString }
    IN  IF unnamed # {} /\ (at = NoFailure \/ \E i \in unnamed : at >= i)
        THEN [table |-> old, error |-> "AttributeError", count |-> 0]
        ELSE ConvertAll(old, Kept(old, "id", IdPrefix("Versions", connection_id)),
                        { [id |-> DomainId("Versions", connection_id, v.id),
                           version |-> v.version,
                           status |-> SprintStatus(v.status)] : v \in versions }, at)

\* convert_sprint_issues: delete by sprint_id prefix, one pair per work package
\* that has a version.
convert_sprint_issues(tables, old, connection_id, at) ==
    ConvertAll(old, Kept(old, "sprint_id", IdPrefix("Versions", connection_id)),
               { [sprint_id |-> DomainId("Versions", connection_id, wp.version_id),
                  issue_id |-> DomainId("WorkPackages", connection_id, wp.id)] :
                   wp \in { r \in OfConnection(tables["_tool_openproject_work_packages"],
                                               connection_id) : r.version_id # None } },
               at)

\* Variant of ConvertMethods: the sprint steps run outside the try/except.
ConvertMethodsUncaught ==
    << [method |-> "convert_accounts", table |-> "accounts", caught |-> FALSE],
       [method |-> "convert_boards", table |-> "boards", caught |-> FALSE],
       [method |-> "convert_issues", table |-> "issues", caught |-> FALSE],
       [method |-> "convert_worklogs", table |-> "issue_worklogs", caught |-> FALSE],
       [method |-> "convert_board_issues", table |-> "board_issues", caught |-> FALSE],
       [method |-> "convert_sprints", table |-> "sprints", caught |-> FALSE],
       [method |-> "convert_sprint_issues", table |-> "sprint_issues", caught |-> FALSE] >>

\* The convert methods in the order run_conversion calls them, each with the
\* table it writes. The two sprint methods run inside one `try: ... except
\* Exception:` that logs a warning.
ConvertMethods ==
    << [method |-> "convert_accounts", table |-> "accounts", caught |-> FALSE],
       [method |-> "convert_boards", table |-> "boards", caught |-> FALSE],
       [method |-> "convert_issues", table |-> "issues", caught |-> FALSE],
       [method |-> "convert_worklogs", table |-> "issue_worklogs", caught |-> FALSE],
       [method |-> "convert_board_issues", table |-> "board_issues", caught |-> FALSE],
       [method |-> "convert_sprints", table |-> "sprints", caught |-> TRUE],
       [method |-> "convert_sprint_issues", table |-> "sprint_issues", caught |-> TRUE] >>

\* One convert method on its domain table.
Converted(method, tables, old, connection_id, at) ==
    CASE method = "convert_accounts" -> convert_accounts(tables, old, connection_id, at)
      [] method = "convert_boards" -> convert_boards(tables, old, connection_id, at)
      [] method = "convert_issues" -> convert_issues(tables, old, connection_id, at)
      [] method = "convert_worklogs" -> convert_worklogs(tables, old, connection_id, at)
      [] method = "convert_board_issues" ->
            convert_board_issues(tables, old, connection_id, at)
      [] method = "convert_sprints" -> convert_sprints(tables, old, connection_id, at)
      [] method = "convert_sprint_issues" ->
            convert_sprint_issues(tables, old, connection_id, at)

\* The next transaction of run_conversion, which is at its method i. Each
\* method commits on its own connection. An exception of a core method or of
\* convert_board_issues leaves run_conversion (`except Exception: raise`); an
\* exception of a sprint method leaves the inner try, so convert_sprint_issues
\* is not called after convert_sprints raised, and run_conversion returns its
\* statistics, in which a method that did not return counts 0. `steps` lists
\* the methods that ran, each with its exception and its entry in the
\* statistics; the last entry is run_conversion itself.
ConvertStep(i, tables, dom, steps, connection_id, plan) ==
    LET Method(m, out) ==
            [domain |-> [dom EXCEPT ![m.table] = out.table],
             trail |-> Append(steps, [method |-> m.method, error |-> out.error,
                                      stat |-> out.count])
                       \o (IF out.error = "none" /\ i < Len(ConvertMethods) THEN <<>>
                           ELSE << [method |-> "run_conversion",
                                    error |-> IF m.caught THEN "none" ELSE out.error,
                                    stat |-> 0] >>),
             stage |-> IF out.error = "none" /\ i < Len(ConvertMethods)
                       THEN [run |-> "run_conversion", i |-> i + 1, offset |-> 0]
                       ELSE Stopped]
        Call(m) ==
            Method(m, Converted(m.method, tables, dom[m.table], connection_id,
                                IF plan.method = m.method THEN plan.at ELSE NoFailure))
    IN  Call(ConvertMethods[i])

\* The body of run_conversion from the method at position i on, as a whole.
RECURSIVE Conversion(_, _, _, _, _, _)
Conversion(i, tables, dom, steps, connection_id, plan) ==
    LET Rest(out) ==
            IF out.stage = Stopped THEN [domain |-> out.domain, trail |-> out.trail]
            ELSE Conversion(out.stage.i, tables, out.domain, out.trail, connection_id,
                            plan)
    IN  Rest(ConvertStep(i, tables, dom, steps, connection_id, plan))

\* One transaction of OpenProjectConverter.run_conversion. Under
\* run_pipeline.main it starts in the process main has started for the
\* converter; run on its own, it starts after an extractor run that returned.
run_conversion ==
    /\ pc = "done"
    /\ \/ stage.run = "run_conversion"
       \/ /\ stage = Stopped
          /\ IF pipeline.called
             THEN pipeline.running = {"converter"} /\ Len(stages) = 2
             ELSE Len(stages) % 2 = 1 /\ Returned(trail)
    /\ LET Commit(out) ==
                /\ domain' = out.domain
                /\ trail' = out.trail
                /\ stage' = out.stage
                /\ stages' = IF out.stage = Stopped THEN Append(stages, "run_conversion")
                             ELSE stages
       IN  Commit(ConvertStep(IF stage = Stopped THEN 1 ELSE stage.i, tool, domain,
                              IF stage = Stopped THEN <<>> ELSE trail,
                              ConnectionId, fault))
    /\ UNCHANGED <<config, server, prior, last_sync, call, pc, page, total_collected,
                   response, meta_idx, req, attempts, sleeps, now, last_request_time,
                   request_count, request_window_start, raw, requests, sent, warned,
                   result, tool, written, fault, pipeline>>

-----------------------------------------------------------------------------
(* The collector *)

\* Arguments a scoped method is called with: None or an entity id.
ScopeArgs == {None, 3}

\* A raw store no earlier run has written to.
NoPrior == [t \in RawTables |-> <<>>]

\* The raw store after an earlier run of the method of call c that collected
\* one full page, all there was.
EarlierRun(c) ==
    [NoPrior EXCEPT ![RawTableOf(c.op)] =
        << [connection_id |-> ConnectionId,
            params |-> [pageSize |-> PageSize, offset |-> 1,
                        filters |-> Filters(c.op, c.arg)],
            url |-> Endpoint(c.op, c.arg),
            input |-> AdditionalFields(c.op, c.arg),
            data |-> [elements |-> PageSize, total |-> PageSize]] >>]

\* Calls of a method on its own (no call follows it: rest is empty), with the
\* default `incremental=True`; the flag is read by collect_work_packages and
\* collect_time_entries only.
Calls ==
    { [op |-> o, arg |-> a, incremental |-> TRUE, rest |-> <<>>] :
        o \in {"collect_work_packages", "collect_time_entries", "collect_versions"},
        a \in ScopeArgs }
    \cup { [op |-> o, arg |-> None, incremental |-> TRUE, rest |-> <<>>] :
        o \in {"collect_projects", "collect_users", "collect_metadata"} }

\* Scenarios of a collector method: every body the API may send, with one
\* outcome of each kind the pagination loops tell apart (a success, a failure
\* result, an exception out of _make_request).
PagingOutcomes ==
    { o \in AttemptOutcomes :
        \/ o.kind = "ok"
        \/ o.kind = "http_error" /\ o.status = 404
        \/ /\ o.kind = "http_error" /\ o.status = 429
           /\ o.retry_after.present /\ ~int(o.retry_after.text).ok }

\* collect_projects never reads max_pages, so it runs under one value of it; a
\* scoped call runs under the largest cap.
PagingScenarios ==
    { sc \in [config : [retry_attempts : {2},
                        max_pages : 1..MaxPagesCap,
                        rate_limit_rpm : {60},
                        batch_size : {PageSize}, use_pure : {FALSE}],
              server : [outcomes : {PagingOutcomes}, bodies : {Bodies}],
              call : {c \in Calls : c.op \in PaginatedOps},
              prior : {NoPrior}] :
        /\ sc.call.op = "collect_projects" => sc.config.max_pages = 1
        /\ sc.call.arg # None => sc.config.max_pages = MaxPagesCap }

\* Scenarios of collect_metadata: its endpoints are not paginated and their
\* bodies carry no total.
MetadataBodies == [elements : 0..1, total : {None}]

MetadataScenarios ==
    [config : [retry_attempts : {2},
               max_pages : {MaxPagesCap},
               rate_limit_rpm : {60},
               batch_size : {PageSize}, use_pure : {FALSE}],
     server : [outcomes : {PagingOutcomes}, bodies : {MetadataBodies}],
     call : {c \in Calls : c.op = "collect_metadata"},
     prior : {NoPrior}]

\* Scenarios of the HTTP client: every attempt outcome and every retry budget,
\* under a method that asks for two pages.
ClientScenarios ==
    [config : [retry_attempts : 1..MaxRetryAttempts,
               max_pages : {MaxPagesCap},
               rate_limit_rpm : RateLimitRpms,
               batch_size : {PageSize}, use_pure : {FALSE}],
     server : [outcomes : {AttemptOutcomes},
               bodies : {{[elements |-> 1, total |-> 2]}}],
     call : {c \in Calls : c.op = "collect_users"},
     prior : {NoPrior}]

\* Scenarios of a run over a raw store that an earlier run of the same method
\* may have filled: incremental or full, the API now holding one entity less
\* than the page the earlier run stored, or one more, or answering with a page
\* that names entity 1 in every element.
RerunBodies ==
    { [elements |-> PageSize - 1, total |-> PageSize - 1],
      [elements |-> PageSize, total |-> PageSize + 1],
      [elements |-> 1, total |-> PageSize + 1],
      [elements |-> PageSize, total |-> PageSize, ids |-> [i \in 1..PageSize |-> 1]] }

RerunCalls ==
    { [op |-> o, arg |-> a, incremental |-> i, rest |-> <<>>] :
        o \in {"collect_work_packages", "collect_time_entries"},
        a \in ScopeArgs, i \in BOOLEAN }
    \cup { c \in Calls : c.op = "collect_projects" }

RerunScenarios ==
    { sc \in [config : [retry_attempts : {2},
                        max_pages : {MaxPagesCap},
                        rate_limit_rpm : {60},
                        batch_size : {PageSize}, use_pure : {FALSE}],
              server : [outcomes : {{ o \in PagingOutcomes : o.status # 429 }},
                        bodies : {RerunBodies}],
              call : RerunCalls,
              prior : {NoPrior} \cup { EarlierRun(c) : c \in RerunCalls }] :
        sc.prior = NoPrior \/ sc.prior = EarlierRun(sc.call) }

\* Scenarios of run_collection(None, incremental), as the collector's script
\* calls it (incremental unless --full), on a collector constructed for it:
\* every collection of the API holds one entity, and a request is answered
\* with it, fails for good, or raises.
RunScenarios ==
    [config : [retry_attempts : {1},
               max_pages : {MaxPagesCap},
               rate_limit_rpm : {60},
               batch_size : {PageSize}, use_pure : {FALSE}],
     server : [outcomes : {PagingOutcomes},
               bodies : {{[elements |-> 1, total |-> 1]}}],
     call : {RunCollection(TRUE)},
     prior : {NoPrior}]

Scenarios ==
    PagingScenarios \cup MetadataScenarios \cup ClientScenarios \cup RerunScenarios
    \cup RunScenarios

Init ==
    /\ \E sc \in Scenarios :
        /\ config = sc.config
        /\ server = sc.server
        /\ call = sc.call
        /\ prior = sc.prior
        /\ raw = sc.prior
    /\ last_sync = None
    /\ pc = "loop"
    /\ page = 1
    /\ total_collected = 0
    /\ response = FailureResponse(NoRequest)
    /\ meta_idx = 1
    /\ req = NoRequest
    /\ attempts = <<>>
    /\ sleeps = <<>>
    /\ now = StartTime * config.rate_limit_rpm
    /\ last_request_time = 0
    /\ request_count = 0
    /\ request_window_start = StartTime * config.rate_limit_rpm
    /\ requests = <<>>
    /\ sent = <<>>
    /\ warned = FALSE
    /\ result = "running"
    /\ tool = [t \in ToolStore |-> {}]
    /\ domain = [d \in DomainTables |-> {}]
    /\ written = [t \in ToolTables |-> <<>>]
    /\ stages = <<>>
    /\ fault = NoFault
    /\ trail = <<>>
    /\ pipeline = Idle
    /\ stage = Stopped

Next ==
    \/ _make_request
    \/ collect_work_packages
    \/ collect_projects
    \/ collect_users
    \/ collect_time_entries
    \/ collect_versions
    \/ collect_metadata
    \/ run_collection
    \/ run_extraction
    \/ run_conversion

Spec == Init /\ [][Next]_vars

-----------------------------------------------------------------------------
(* The Extractor and the Converter over stores of any content *)

WorkPackages == "_tool_openproject_work_packages"

\* The row _store_raw_data leaves for the first page of an endpoint, as the
\* method that asks for it, called without argument, stores it.
StoredPage(path, connection_id, payload) ==
    LET paginated == \E op \in PaginatedOps : Endpoint(op, None).path = path
    IN  [connection_id |-> connection_id,
         params |-> IF paginated
                    THEN [pageSize |-> PageSize, offset |-> 1, filters |-> NoFilter]
                    ELSE NoParams,
         url |-> [path |-> path, id |-> None],
         input |-> IF paginated
                   THEN AdditionalFields(CHOOSE op \in PaginatedOps :
                                            Endpoint(op, None).path = path, None)
                   ELSE NoInput,
         data |-> payload]

\* A page with the given elements.
PageOf(path, elements) == StoredPage(path, ConnectionId, [embedded |-> elements])

\* A duration token PT<h>H<m>M<s>S.
Duration(h, m, s) == [H |-> h, M |-> m, S |-> s]

\* The pages of users, projects and statuses every scenario stores: users 1
\* and 2, project 1, statuses 1..5 of which 3 and 5 are closed.
UsersPage ==
    PageOf("/api/v3/users", << [id |-> 1, login |-> "ann"], [id |-> 2, login |-> "bob"] >>)

ProjectsPage == PageOf("/api/v3/projects", << [id |-> 1, identifier |-> "demo"] >>)

StatusesPage ==
    PageOf("/api/v3/statuses",
           << [id |-> 1, isClosed |-> 0], [id |-> 2, isClosed |-> 0],
              [id |-> 3, isClosed |-> 1], [id |-> 4, isClosed |-> 0],
              [id |-> 5, isClosed |-> 1] >>)

\* Time entries of 0 hours, 90 seconds and 1 hour, and one without hours.
TimeEntriesPage ==
    PageOf("/api/v3/time_entries",
           << [id |-> 1, hours |-> Duration(0, 0, 0)], [id |-> 2, hours |-> Duration(0, 0, 90)],
              [id |-> 3, hours |-> Duration(1, 0, 0)], [id |-> 4, hours |-> NULL] >>)

\* The page of versions every scenario stores, as collect_versions(None)
\* stores it (input: project_id None): versions 1 and 2.
VersionsPage ==
    PageOf("/api/v3/versions", << [id |-> 1, status |-> "open"],
                                  [id |-> 2, status |-> "closed"] >>)

\* A raw store holding the given rows of work packages, time entries,
\* projects and statuses, one page of users, of versions and of each other
\* metadata kind, and a page of another connection that no method of this one
\* may read.
Store(work_packages, time_entries, projects, statuses) ==
    [t \in RawTables |->
        CASE t = "_raw_openproject_api_work_packages" ->
                << StoredPage("/api/v3/work_packages", 2,
                              [embedded |-> <<BareElement(WorkPackages, 8)>>]) >>
                \o work_packages
          [] t = "_raw_openproject_api_time_entries" -> time_entries
          [] t = "_raw_openproject_api_projects" -> projects
          [] t = "_raw_openproject_api_users" -> <<UsersPage>>
          [] t = "_raw_openproject_api_versions" -> <<VersionsPage>>
          [] t = "_raw_openproject_api_statuses" -> statuses
          [] t = "_raw_openproject_api_types" ->
                <<PageOf("/api/v3/types", <<[id |-> 1]>>)>>
          [] t = "_raw_openproject_api_priorities" ->
                <<PageOf("/api/v3/priorities", <<[id |-> 1]>>)>>
          [] t = "_raw_openproject_api_activities" ->
                <<PageOf("/api/v3/time_entries/activities", <<[id |-> 1]>>)>>
          [] OTHER -> <<>>]

\* Tool rows an earlier run of this connection left (work package 9, user 9,
\* project 9, status 9, time entry 9) and rows of connection 2, whose work
\* package 1 refers to its user 1, project 1 and status 1.
EarlierTool ==
    [t \in ToolStore |->
        CASE t = WorkPackages ->
                { _extract_work_package_data(BareElement(WorkPackages, 9), ConnectionId, 0),
                  _extract_work_package_data(
                      [BareElement(WorkPackages, 1) EXCEPT
                          !.assignee = Link(1, "Zed"), !.responsible = Link(1, "Zed"),
                          !.author = Link(1, "Zed"), !.project = Link(1, "Other"),
                          !.status = Link(1, "Closed")],
                      2, 0) }
          [] t = "_tool_openproject_users" ->
                { ToolRow(t, [id |-> 9, login |-> "old"], ConnectionId, 0),
                  ToolRow(t, [id |-> 1, login |-> "zed"], 2, 0) }
          [] t = "_tool_openproject_projects" ->
                { ToolRow(t, [id |-> 9, identifier |-> "old"], ConnectionId, 0),
                  ToolRow(t, [id |-> 1, identifier |-> "other"], 2, 0) }
          [] t = "_tool_openproject_statuses" ->
                { ToolRow(t, [id |-> 9, isClosed |-> 0], ConnectionId, 0),
                  ToolRow(t, [id |-> 1, isClosed |-> 1], 2, 0) }
          [] t = "_tool_openproject_time_entries" ->
                { ToolRow(t, [id |-> 9, hours |-> NULL], ConnectionId, 0) }
          [] OTHER -> {}]

\* Connections other than this one that have written domain rows: 10 and 11
\* begin with this connection's id.
OtherConnections == {10, 11, 2}

\* Domain rows written by another tool, by other connections of this
\* converter, and by an earlier run of this connection (native id 9).
EarlierDomain ==
    [d \in DomainTables |->
        CASE d = "issues" ->
                { _convert_work_package_to_issue(
                      _extract_work_package_data(BareElement(WorkPackages, 1), c, 0), c) :
                    c \in OtherConnections }
                \cup { _convert_work_package_to_issue(
                          _extract_work_package_data(BareElement(WorkPackages, 9),
                                                     ConnectionId, 0), ConnectionId) }
                \cup { [id |-> <<"jira", ":", "Issue", ":", "1", ":", "1">>] }
          [] d = "boards" ->
                { [id |-> DomainId("Projects", c, 1), version |-> 0] :
                    c \in OtherConnections \cup {ConnectionId} }
                \cup { [id |-> <<"jira", ":", "Board", ":", "1", ":", "1">>] }
          [] d = "accounts" ->
                { [id |-> DomainId("Users", c, 1), version |-> 0, user_name |-> "zed"] :
                    c \in OtherConnections }
                \cup { [id |-> DomainId("Users", ConnectionId, 9), version |-> 0,
                        user_name |-> "old"] }
          [] d = "issue_worklogs" ->
                { [id |-> DomainId("TimeEntries", c, 1), version |-> 0,
                   time_spent_minutes |-> 5] :
                    c \in OtherConnections }
                \cup { [id |-> DomainId("TimeEntries", ConnectionId, 9), version |-> 0,
                        time_spent_minutes |-> 5] }
          [] d = "board_issues" ->
                { [board_id |-> DomainId("Projects", c, 1),
                   issue_id |-> DomainId("WorkPackages", c, 1)] :
                    c \in OtherConnections \cup {ConnectionId} }
          [] d = "sprints" ->
                { [id |-> DomainId("Versions", c, 1), version |-> 0] :
                    c \in OtherConnections \cup {ConnectionId} }
                \cup { [id |-> <<"jira", ":", "Sprint", ":", "1", ":", "1">>] }
          [] d = "sprint_issues" ->
                { [sprint_id |-> DomainId("Versions", c, 1),
                   issue_id |-> DomainId("WorkPackages", c, 9)] :
                    c \in OtherConnections \cup {ConnectionId} }]

\* Payloads a stored page of work packages or time entries may hold: elements
\* i and i + 1, an element without id before element i, no _embedded, text
\* that is not JSON, JSON that is no object and, of work packages, element i
\* with a project entry that is JSON null before element i + 1.
Payloads(tool_table, i) ==
    { [embedded |-> <<BareElement(tool_table, i), BareElement(tool_table, i + 1)>>],
      [embedded |-> <<BareElement(tool_table, None), BareElement(tool_table, i)>>],
      [absent |-> "_embedded"],
      [broken |-> "JSONDecodeError"],
      [broken |-> "AttributeError"] }
    \cup (IF tool_table = WorkPackages
          THEN { [embedded |-> << [BareElement(tool_table, i) EXCEPT !.project = NULL],
                                  BareElement(tool_table, i + 1) >>] }
          ELSE {})

\* Payloads the latest page of projects or statuses may hold.
LatestPayloads(tool_table) ==
    { [embedded |-> <<BareElement(tool_table, 1), BareElement(tool_table, 2)>>],
      [absent |-> "_embedded"],
      [broken |-> "JSONDecodeError"],
      [broken |-> "AttributeError"] }

\* Three well-formed pages of work packages 1..5, the last repeating an id of
\* the one before.
GoodWorkPackages ==
    << PageOf("/api/v3/work_packages",
              <<BareElement(WorkPackages, 1), BareElement(WorkPackages, 2)>>),
       PageOf("/api/v3/work_packages",
              <<BareElement(WorkPackages, 3), BareElement(WorkPackages, 4)>>),
       PageOf("/api/v3/work_packages",
              <<BareElement(WorkPackages, 4), BareElement(WorkPackages, 5)>>) >>

\* The first page of work packages 1 and 2 as batch_size collector runs stored
\* it, then a page of work packages 3 and 4: one row more than
\* extract_work_packages reads in a batch.
ManyWorkPackages ==
    [i \in 1..batch_size |->
        PageOf("/api/v3/work_packages",
               <<BareElement(WorkPackages, 1), BareElement(WorkPackages, 2)>>)]
    \o << PageOf("/api/v3/work_packages",
                 <<BareElement(WorkPackages, 3), BareElement(WorkPackages, 4)>>) >>

\* Scenarios of parsing: two pages of work packages or of time entries, or the
\* latest page of projects or of statuses, hold any payload.
ParseScenarios ==
    { [raw |-> Store(<<StoredPage("/api/v3/work_packages", ConnectionId, p[1]),
                       StoredPage("/api/v3/work_packages", ConnectionId, p[2])>>,
                     <<TimeEntriesPage>>, <<ProjectsPage>>, <<StatusesPage>>),
       tool |-> EarlierTool, domain |-> EarlierDomain, fault |-> NoFault] :
        p \in Payloads(WorkPackages, 1) \X Payloads(WorkPackages, 2) }
    \cup
    { [raw |-> Store(GoodWorkPackages,
                     <<StoredPage("/api/v3/time_entries", ConnectionId, p[1]),
                       StoredPage("/api/v3/time_entries", ConnectionId, p[2])>>,
                     <<ProjectsPage>>, <<StatusesPage>>),
       tool |-> EarlierTool, domain |-> EarlierDomain, fault |-> NoFault] :
        p \in Payloads("_tool_openproject_time_entries", 1)
              \X Payloads("_tool_openproject_time_entries", 2) }
    \cup
    { [raw |-> Store(GoodWorkPackages, <<TimeEntriesPage>>,
                     <<ProjectsPage, StoredPage("/api/v3/projects", ConnectionId, p[1])>>,
                     <<StatusesPage, StoredPage("/api/v3/statuses", ConnectionId, p[2])>>),
       tool |-> EarlierTool, domain |-> EarlierDomain, fault |-> NoFault] :
        p \in LatestPayloads("_tool_openproject_projects")
              \X LatestPayloads("_tool_openproject_statuses") }

\* The latest INSERT of a convert method at which the database may fail.
MaxConvertFaultAt == 2

\* Scenarios of a failing database: over three pages of work packages, the
\* at-th INSERT of one method, or update_references, raises; over two batches
\* of work packages, no statement or the at-th INSERT of
\* extract_work_packages does.
MaxFaultAt == 4

FaultScenarios ==
    { [raw |-> Store(GoodWorkPackages, <<TimeEntriesPage>>, <<ProjectsPage>>,
                     <<StatusesPage>>),
       tool |-> EarlierTool, domain |-> EarlierDomain,
       fault |-> [method |-> m, at |-> n]] :
        m \in { ExtractMethods[i].method : i \in 1..Len(ExtractMethods) }
              \cup {"update_references"},
        n \in 1..MaxFaultAt }
    \cup
    { [raw |-> Store(ManyWorkPackages, <<TimeEntriesPage>>, <<ProjectsPage>>,
                     <<StatusesPage>>),
       tool |-> EarlierTool, domain |-> EarlierDomain, fault |-> f] :
        f \in {NoFault}
              \cup { [method |-> "extract_work_packages", at |-> n] : n \in 1..MaxFaultAt } }

\* Scenarios of references: one work package whose assignee, responsible,
\* author, project and status are absent, extracted (1, 3) or unknown (7).
ReferenceScenarios ==
    { [raw |-> Store(<<PageOf("/api/v3/work_packages",
                              << [BareElement(WorkPackages, 1) EXCEPT
                                     !.assignee = r[1], !.responsible = r[2],
                                     !.author = r[3], !.project = r[4],
                                     !.status = r[5]] >>)>>,
                     <<TimeEntriesPage>>, <<ProjectsPage>>, <<StatusesPage>>),
       tool |-> EarlierTool, domain |-> EarlierDomain, fault |-> NoFault] :
        r \in {NULL, Link(1, "Ann"), Link(7, "Gone")}
              \X {NULL, Link(2, "Bob"), Link(7, "Gone")}
              \X {NULL, Link(1, "Ann")}
              \X {Missing, Link(1, "Demo"), Link(7, "Gone")}
              \X {NULL, Link(3, "Closed"), Link(7, "Closed")} }

\* Status, type, timestamp and durations a work package may carry: statuses
\* the dictionary maps to each bucket, one it lacks that is open (4), one it
\* lacks that is closed (5), one the statuses page does not list (7); durations
\* of 0, 59 seconds, 1 hour and 1 hour 30 minutes 30 seconds.
StatusLinks ==
    { NULL, Link(1, "New"), Link(2, "In progress"), Link(3, "Closed"),
      Link(4, "Accepted"), Link(5, "Wontfix"), Link(7, "Done"), Link(7, "Parked") }

TypeLinks == { NULL, Link(1, "Bug"), Link(2, "Chore") }

Durations ==
    { NULL, Duration(0, 0, 0), Duration(0, 0, 59), Duration(1, 0, 0), Duration(1, 30, 30),
      Duration(1, 40, 0) }

\* Scenarios of conversion: two work packages, the first with any status,
\* type and timestamp, the second with any two durations.
ConversionScenarios ==
    { [raw |-> Store(<<PageOf("/api/v3/work_packages",
                              << [BareElement(WorkPackages, 1) EXCEPT
                                     !.status = w[1], !.type = w[2], !.updatedAt = w[3],
                                     !.project = Link(1, "Demo")],
                                 [BareElement(WorkPackages, 2) EXCEPT
                                     !.status = Link(3, "Closed"), !.updatedAt = 7,
                                     !.estimatedTime = w[4], !.spentTime = w[5]] >>)>>,
                     <<TimeEntriesPage>>, <<ProjectsPage>>, <<StatusesPage>>),
       tool |-> EarlierTool, domain |-> EarlierDomain, fault |-> NoFault] :
        w \in { v \in StatusLinks \X TypeLinks \X {None, 7} \X Durations \X Durations :
                  \/ v[4] = NULL /\ v[5] = NULL
                  \/ v[1] = NULL /\ v[2] = NULL /\ v[3] = None } }

\* Failures of the converter's database: the DELETE (0) or the at-th INSERT of
\* one convert method raises.
ConvertFaults ==
    { [method |-> ConvertMethods[i].method, at |-> n] :
        i \in 1..Len(ConvertMethods), n \in 0..MaxConvertFaultAt }

\* Scenarios of relations: three work packages, the first with any project and
\* version, the second with or without a version, the third with a project
\* link that ends with no number and without version; the versions table,
\* which no method of the extractor writes, is empty or holds what something
\* else wrote: one open version, or a closed one and one without status; the
\* converter's database works or fails once.
VersionRows ==
    { {},
      { [id |-> 1, connection_id |-> ConnectionId, version |-> 0, status |-> "Open"] },
      { [id |-> 1, connection_id |-> ConnectionId, version |-> 0, status |-> "CLOSED"],
        [id |-> 2, connection_id |-> ConnectionId, version |-> 0, status |-> NoString] } }

RelationScenarios ==
    { [raw |-> Store(<<PageOf("/api/v3/work_packages",
                              << [BareElement(WorkPackages, 1) EXCEPT
                                     !.project = r[1], !.version = r[2]],
                                 [BareElement(WorkPackages, 2) EXCEPT
                                     !.project = Link(1, "Demo"), !.version = r[3]],
                                 [BareElement(WorkPackages, 3) EXCEPT
                                     !.project = Link(None, "Demo")] >>)>>,
                     <<TimeEntriesPage>>, <<ProjectsPage>>, <<StatusesPage>>),
       tool |-> [EarlierTool EXCEPT !["_tool_openproject_versions"] = v],
       domain |-> EarlierDomain, fault |-> f] :
        r \in {[title |-> "Demo"], Link(1, "Demo"), Link(7, "Gone")}
              \X {NULL, Link(1, "Sprint 1"), Link(2, "Sprint 2")}
              \X {NULL, Link(1, "Sprint 1")},
        v \in VersionRows,
        f \in {NoFault} \cup ConvertFaults }

StageScenarios ==
    ParseScenarios \cup FaultScenarios \cup ReferenceScenarios \cup ConversionScenarios
    \cup RelationScenarios

\* The collector has returned; the stores hold what a scenario says.
StageInit ==
    /\ \E sc \in StageScenarios :
        /\ raw = sc.raw
        /\ prior = sc.raw
        /\ tool = sc.tool
        /\ domain = sc.domain
        /\ fault = sc.fault
    /\ \E use_pure \in BOOLEAN :
        config = [retry_attempts |-> 1, max_pages |-> 1, rate_limit_rpm |-> 60,
                  batch_size |-> PageSize, use_pure |-> use_pure]
    /\ server = [outcomes |-> {}, bodies |-> {}]
    /\ call = Ended(TRUE)
    /\ last_sync = None
    /\ pc = "done"
    /\ page = 1
    /\ total_collected = 0
    /\ response = FailureResponse(NoRequest)
    /\ meta_idx = 1
    /\ req = NoRequest
    /\ attempts = <<>>
    /\ sleeps = <<>>
    /\ now = StartTime * config.rate_limit_rpm
    /\ last_request_time = 0
    /\ request_count = 0
    /\ request_window_start = StartTime * config.rate_limit_rpm
    /\ requests = <<>>
    /\ sent = <<>>
    /\ warned = FALSE
    /\ result = 0
    /\ written = [t \in ToolTables |-> <<>>]
    /\ stages = <<>>
    /\ trail = <<>>
    /\ pipeline = Idle
    /\ stage = Stopped

StageNext ==
    \/ run_extraction
    \/ run_conversion

StageSpec == StageInit /\ [][StageNext]_vars

-----------------------------------------------------------------------------
(* The pipeline: run_pipeline.main over the three components *)

\* The components of main when neither --skip-collection nor
\* --skip-extraction is given, all of them required, each with the run method
\* its script calls.
Components ==
    << [script |-> "collector", run |-> "run_collection"],
       [script |-> "extractor", run |-> "run_extraction"],
       [script |-> "converter", run |-> "run_conversion"] >>

\* The exit code of a component's script: exit(1) from `except Exception` around
\* the run method, 0 at the end of the script.
ReturnCode(steps) == IF Returned(steps) THEN 0 ELSE 1

\* Variant of MayStart: the loop has no break.
MayStartAfterFailure(i, outcomes, running) ==
    /\ i <= Len(Components)
    /\ running = {}

\* The for loop of main reaches component i: subprocess.run has returned for
\* every component before it, and none of them failed (`if not success: ...
\* break`, every component being required).
MayStart(i, outcomes, running) ==
    /\ i <= Len(Components)
    /\ running = {}
    /\ \A j \in 1..Len(outcomes) : outcomes[j].success

\* `return 1` when failed_components is not empty, `return 0` otherwise.
ExitCode(outcomes) ==
    IF \E j \in 1..Len(outcomes) : ~outcomes[j].success THEN 1 ELSE 0

\* run_component calls subprocess.run on the next component's script. The
\* collector's script constructs the collector and calls
\* run_collection(None, True), which calls its first method.
run_component_start ==
    /\ pipeline.code = None
    /\ MayStart(Len(pipeline.outcomes) + 1, pipeline.outcomes, pipeline.running)
    /\ pipeline' = [pipeline EXCEPT !.running = {Components[Len(pipeline.outcomes) + 1].script}]
    /\ IF Components[Len(pipeline.outcomes) + 1].script = "collector"
       THEN /\ call' = RunCollection(TRUE)
            /\ pc' = "loop"
            /\ result' = "running"
       ELSE UNCHANGED <<call, pc, result>>
    /\ UNCHANGED <<config, server, page, total_collected, response, meta_idx,
                   req, attempts, sleeps, now, last_request_time, request_count,
                   request_window_start, raw, requests, sent, prior, last_sync, warned,
                   tool, domain, written, stages, fault, trail, stage>>

\* The component's process has run to its end: run_collection, run_extraction
\* or run_conversion has returned or raised, the script has exited and
\* subprocess.run returns; success is `result.returncode == 0`.
run_component_return ==
    /\ pipeline.running # {}
    /\ stage = Stopped
    /\ IF pipeline.running = {"collector"}
       THEN call.op = "run_collection" /\ stages = <<>>
       ELSE Len(stages) = Len(pipeline.outcomes) + 1
    /\ LET c == CHOOSE x \in pipeline.running : TRUE
       IN  /\ stages' = IF c = "collector" THEN Append(stages, "run_collection") ELSE stages
           /\ pipeline' = [pipeline EXCEPT
                             !.running = {},
                             !.outcomes = Append(@, [component |-> c,
                                                     success |-> ReturnCode(trail) = 0,
                                                     returncode |-> ReturnCode(trail)])]
    /\ UNCHANGED <<config, server, call, pc, page, total_collected, response, meta_idx,
                   req, attempts, sleeps, now, last_request_time, request_count,
                   request_window_start, raw, requests, sent, prior, last_sync, warned,
                   result, tool, domain, written, fault, trail, stage>>

\* The loop is over, by its end or by break: main returns the exit code.
main_return ==
    /\ pipeline.code = None
    /\ pipeline.running = {}
    /\ ~MayStart(Len(pipeline.outcomes) + 1, pipeline.outcomes, pipeline.running)
    /\ pipeline' = [pipeline EXCEPT !.code = ExitCode(pipeline.outcomes)]
    /\ UNCHANGED <<config, server, call, pc, page, total_collected, response, meta_idx,
                   req, attempts, sleeps, now, last_request_time, request_count,
                   request_window_start, raw, requests, sent, prior, last_sync, warned,
                   result, tool, domain, written, stages, fault, trail, stage>>

\* main starts with an empty raw store, over tool and domain tables that
\* earlier runs and other connections have filled; the database of the later
\* components works, or fails at the first INSERT of extract_work_packages,
\* at the first INSERT of convert_accounts or at the DELETE of convert_sprints.
PipelineInit ==
    /\ pipeline = [Idle EXCEPT !.called = TRUE]
    /\ fault \in { NoFault, [method |-> "extract_work_packages", at |-> 1],
                    [method |-> "convert_accounts", at |-> 1],
                    [method |-> "convert_sprints", at |-> 0] }
    /\ raw = [t \in RawTables |-> <<>>]
    /\ prior = [t \in RawTables |-> <<>>]
    /\ tool = EarlierTool
    /\ domain = EarlierDomain
    /\ \E sc \in RunScenarios :
        /\ config = sc.config
        /\ server = sc.server
    /\ call = [op |-> "none", arg |-> None, incremental |-> TRUE, rest |-> <<>>]
    /\ last_sync = None
    /\ pc = "done"
    /\ page = 1
    /\ total_collected = 0
    /\ response = FailureResponse(NoRequest)
    /\ meta_idx = 1
    /\ req = NoRequest
    /\ attempts = <<>>
    /\ sleeps = <<>>
    /\ now = StartTime * config.rate_limit_rpm
    /\ last_request_time = 0
    /\ request_count = 0
    /\ request_window_start = StartTime * config.rate_limit_rpm
    /\ requests = <<>>
    /\ sent = <<>>
    /\ warned = FALSE
    /\ result = 0
    /\ written = [t \in ToolTables |-> <<>>]
    /\ stages = <<>>
    /\ trail = <<>>
    /\ stage = Stopped

PipelineNext ==
    \/ run_component_start
    \/ _make_request
    \/ collect_work_packages
    \/ collect_projects
    \/ collect_users
    \/ collect_time_entries
    \/ collect_versions
    \/ collect_metadata
    \/ run_collection
    \/ run_extraction
    \/ run_conversion
    \/ run_component_return
    \/ main_return

PipelineSpec == PipelineInit /\ [][PipelineNext]_vars

-----------------------------------------------------------------------------
(* Properties *)

Min(a, b) == IF a < b THEN a ELSE b

Max(a, b) == IF a > b THEN a ELSE b

Ceil(a, b) == (a + b - 1) \div b

\* Rows the running paginated method has written to its raw table.
PageRows ==
    SubSeq(raw[RawTableOf(call.op)], Len(prior[RawTableOf(call.op)]) + 1,
           Len(raw[RawTableOf(call.op)]))

\* The API answered every page request of the running method from a
\* collection of T entities: total = T, full pages, the last one partial.
HonestPages(T) ==
    /\ Len(PageRows) = Len(requests)
    /\ \A k \in 1..Len(PageRows) :
        /\ PageRows[k].data # NULL
        /\ PageRows[k].data.total = T
        /\ PageRows[k].data.elements =
              Max(0, Min(config.batch_size, T - (k - 1) * config.batch_size))

\* The method issued exactly ceil(T/P) page requests, offsets 1, 2, ..., and
\* returned T.
PagedExactly(T) ==
    /\ Len(requests) = Ceil(T, config.batch_size)
    /\ \A k \in 1..Len(requests) : requests[k].params.offset = k
    /\ result = T

\* C1 as stated: for every paginated collection and every total T served in
\* full pages of size P, the method issues exactly ceil(T/P) page requests
\* with offsets 1..ceil(T/P) and returns T.
C1_ExactPageCount ==
    (pc = "done" /\ call.op \in PaginatedOps) =>
        \A T \in 0..MaxTotal : HonestPages(T) => PagedExactly(T)

\* C1 amended: the same for a non-empty collection (T >= 1) whose ceil(T/P)
\* pages fit under max_pages (collect_projects has no page cap).
C1_ExactPageCountUnderCap ==
    (pc = "done" /\ call.op \in PaginatedOps) =>
        \A T \in 1..MaxTotal :
            (/\ HonestPages(T)
             /\ (call.op = "collect_projects"
                 \/ Ceil(T, config.batch_size) <= config.max_pages))
            => PagedExactly(T)

\* C1 witness: a capped method has paged through a collection of P + 1
\* entities in two pages, the last one partial.
C1_Witness ==
    /\ pc = "done"
    /\ call.op = "collect_work_packages"
    /\ HonestPages(PageSize + 1)
    /\ Len(requests) = 2
    /\ result = PageSize + 1

\* C2 as stated: a paginated collection call issues at most max_pages page
\* requests, whatever the API answers.
C2_AtMostMaxPages ==
    call.op \in PaginatedOps => Len(requests) <= config.max_pages

\* The scope a stored page was requested with: the filter parameter, or the
\* project in the path of the versions endpoint.
UsedScope(row) ==
    IF row.params.filters # NoFilter THEN row.params.filters.value ELSE row.url.id

\* C3: in a paginated collection every returned response, success or failure,
\* is a raw row tagged with the scope of its request before the loop decides
\* on it; the rows written equal the page requests completed.
C3_StoredBeforeDecision ==
    call.op \in PaginatedOps =>
        /\ pc \in {"loop", "decide", "done"} => Len(PageRows) = Len(requests)
        /\ pc \in {"attempt", "store"} => Len(PageRows) = Len(requests) - 1
        /\ pc = "decide" =>
            LET row == PageRows[Len(PageRows)]
            IN  /\ row.url = response.url
                /\ row.params = response.params
                /\ row.params.offset = page
                /\ row.data = (IF response.success THEN response.data ELSE NULL)
                /\ row.input.value = UsedScope(row)
                /\ row.input.value = call.arg

\* C3 witness: a failed second page of a scoped collection is stored and the
\* loop is about to decide on it.
C3_Witness ==
    /\ pc = "decide"
    /\ call.op = "collect_versions"
    /\ call.arg = 3
    /\ ~response.success
    /\ Len(requests) = 2
    /\ PageRows[2].data = NULL
    /\ PageRows[2].input.value = 3

\* C4: when the request for page k returns a failure, a row with null payload
\* is stored for page k, the rows of pages 1..k-1 are there with their
\* payloads, and no page after k is requested.
C4_FailedPageHalts ==
    call.op \in PaginatedOps =>
        /\ \A k \in 1..Len(PageRows) :
              PageRows[k].data = NULL =>
                /\ k = Len(PageRows)
                /\ Len(requests) = k
                /\ pc \in {"decide", "done"}
                /\ \A j \in 1..(k - 1) :
                      PageRows[j].data # NULL /\ PageRows[j].params.offset = j
        /\ (pc = "decide" /\ ~response.success) =>
              /\ Len(PageRows) = Len(requests)
              /\ PageRows[Len(PageRows)].data = NULL
              /\ PageRows[Len(PageRows)].params.offset = page

\* C4 witness: the method has returned after its third page failed.
C4_Witness ==
    /\ pc = "done"
    /\ call.op = "collect_projects"
    /\ Len(PageRows) = 3
    /\ PageRows[1].data # NULL
    /\ PageRows[2].data # NULL
    /\ PageRows[3].data = NULL
    /\ result = PageRows[1].data.elements + PageRows[2].data.elements

RECURSIVE CountRows(_, _)
CountRows(store, tables) ==
    IF tables = {} THEN 0
    ELSE LET t == CHOOSE x \in tables : TRUE
         IN  Len(store[t]) + CountRows(store, tables \ {t})

\* The raw tables a collect method writes to.
TablesOf(op) ==
    IF op = "collect_metadata"
    THEN { MetadataEndpoints[i].table : i \in 1..Len(MetadataEndpoints) }
    ELSE {RawTableOf(op)}

\* C5 as stated: every response the collector obtains, success or failure, is
\* one raw row, also for the requests of collect_metadata: the rows a method
\* has written are as many as the requests it has completed.
C5_EveryResponseStored ==
    (call.op \in PaginatedOps \cup {"collect_metadata"} /\ pc \in {"loop", "decide", "done"})
    => CountRows(raw, TablesOf(call.op)) - CountRows(prior, TablesOf(call.op))
          = Len(requests)

\* C6: a step of any stage leaves every raw table as it was or appends one row
\* to it; no raw row is ever changed or removed.
C6_RawAppendOnly ==
    [][\A t \in RawTables :
          \/ raw'[t] = raw[t]
          \/ /\ Len(raw'[t]) = Len(raw[t]) + 1
             /\ SubSeq(raw'[t], 1, Len(raw[t])) = raw[t]]_vars

\* C6 witness: the Extractor and the Converter have run over a raw table that
\* holds a successful and a failed page.
C6_Witness ==
    /\ Len(raw["_raw_openproject_api_work_packages"]) = 2
    /\ raw["_raw_openproject_api_work_packages"][1].data # NULL
    /\ raw["_raw_openproject_api_work_packages"][2].data = NULL
    /\ tool["_tool_openproject_work_packages"] # {}
    /\ domain["issues"] # {}

\* C7 as stated: no sequence of attempt outcomes makes the request operation
\* raise to its caller.
C7_RequestNeverRaises ==
    ~(pc = "raised" /\ result = "ValueError")

\* C8 as stated: at most retry_attempts attempts; success exactly when an
\* attempt succeeds; a failure result once all attempts are used up.
C8_AttemptBudget ==
    /\ Len(attempts) <= config.retry_attempts
    /\ (pc = "store" /\ attempts # <<>>) =>
          (response.success <=> attempts[Len(attempts)].kind = "ok")
    /\ (/\ Len(attempts) = config.retry_attempts
        /\ \A i \in 1..Len(attempts) : attempts[i].kind # "ok")
       => (pc = "store" /\ ~response.success)

Backoffs == SelectKind(sleeps, "backoff")

\* A timeout, or an HTTP error whose status is in `statuses`.
TimeoutOrStatus(o, statuses) ==
    \/ o.kind = "timeout"
    \/ o.kind = "http_error" /\ o.status \in statuses

\* The i-th backoff sleep lasted 2^(i-1) seconds, for the first n of them,
\* and there are no others.
ExponentialBackoffs(n) ==
    /\ Len(Backoffs) = n
    /\ \A i \in 1..n : Backoffs[i].secs = Pow2(i - 1)

\* With every attempt so far a timeout or a response with a status in
\* `statuses`: fewer than retry_attempts of them are each followed by a
\* backoff of 2^(i-1) seconds and another attempt; the last permitted one is
\* followed by no sleep and a failure result; a success after k of them is
\* returned with a total backoff of 2^k - 1 seconds.
RetriedWithBackoff(statuses) ==
    LET n == Len(attempts)
        failures(m) == \A i \in 1..m : TimeoutOrStatus(attempts[i], statuses)
    IN  /\ (n > 0 /\ failures(n) /\ n < config.retry_attempts) =>
              (pc = "attempt" /\ ExponentialBackoffs(n))
        /\ (n > 0 /\ failures(n) /\ n = config.retry_attempts) =>
              (pc = "store" /\ ~response.success /\ ExponentialBackoffs(n - 1))
        /\ (n > 0 /\ failures(n - 1) /\ attempts[n].kind = "ok") =>
              /\ pc = "store"
              /\ response.success
              /\ ExponentialBackoffs(n - 1)
              /\ SumSecs(Backoffs) = Pow2(n - 1) - 1

\* C9 as stated: timeouts and 5xx responses are retried with exponential
\* backoff 2^0, 2^1, ...; none follows the final failed attempt.
C9_BackoffAny5xx == RetriedWithBackoff(500..599)

\* C10 as stated: among timeouts, retried 5xx and 429 responses, the backoff
\* after the i-th timeout/5xx is 2^(i-1) seconds however many 429 came before.
C10_BackoffIgnores429 ==
    (\A i \in 1..Len(attempts) :
        TimeoutOrStatus(attempts[i], {429, 500, 502, 503, 504}))
    => \A i \in 1..Len(Backoffs) : Backoffs[i].secs = Pow2(i - 1)

\* Clock reading at which the j-th attempt of the running request operation
\* was sent.
AttemptTime(j) == sent[Len(sent) - Len(attempts) + j]

\* n seconds on the clock, which counts ticks of 1/rate_limit_rpm s.
Seconds(n) == n * config.rate_limit_rpm

Is429(o) == o.kind = "http_error" /\ o.status = 429

\* The delay in seconds a 429 response asks for: the Retry-After header as a
\* decimal number, 60 without the header, None for any other header text.
HeaderSeconds(o) ==
    IF ~o.retry_after.present THEN 60
    ELSE IF int(o.retry_after.text).ok THEN int(o.retry_after.text).value
    ELSE None

\* C11 as stated: after a 429 with Retry-After: r (60 without the header) the
\* client pauses exactly r seconds and then makes the next attempt, whatever
\* the attempt counter.
C11_PauseThenNextAttempt ==
    \A j \in 1..Len(attempts) :
        (Is429(attempts[j]) /\ HeaderSeconds(attempts[j]) >= 0) =>
            IF j < Len(attempts)
            THEN AttemptTime(j + 1) - AttemptTime(j) = Seconds(HeaderSeconds(attempts[j]))
            ELSE /\ now - AttemptTime(j) = Seconds(HeaderSeconds(attempts[j]))
                 /\ pc = "attempt"

\* C11 amended: the pause after a 429 is exactly r seconds whatever the
\* attempt counter; the next attempt follows it when the 429 answered one of
\* the first retry_attempts - 1 attempts, and a failure result follows it when
\* the 429 answered the last permitted attempt.
C11_PauseThenNextOrFailure ==
    \A j \in 1..Len(attempts) :
        (Is429(attempts[j]) /\ HeaderSeconds(attempts[j]) >= 0) =>
            IF j < Len(attempts)
            THEN AttemptTime(j + 1) - AttemptTime(j) = Seconds(HeaderSeconds(attempts[j]))
            ELSE /\ now - AttemptTime(j) = Seconds(HeaderSeconds(attempts[j]))
                 /\ IF j < config.retry_attempts
                    THEN pc = "attempt"
                    ELSE pc = "store" /\ ~response.success

\* C11 witness: a timeout, then a 429 with Retry-After: 5; five seconds later
\* the third attempt is due.
C11_Witness ==
    /\ pc = "attempt"
    /\ Len(attempts) = 2
    /\ attempts[1].kind = "timeout"
    /\ Is429(attempts[2])
    /\ attempts[2].retry_after.text = <<"5">>
    /\ now - AttemptTime(2) = Seconds(5)

\* C12: a 4xx response other than 429 ends the request operation: it is the
\* last attempt, no sleep follows it, and the failure result is returned.
C12_Terminal4xx ==
    \A j \in 1..Len(attempts) :
        (/\ attempts[j].kind = "http_error"
         /\ attempts[j].status \in 400..499
         /\ attempts[j].status # 429)
        => /\ j = Len(attempts)
           /\ pc = "store"
           /\ ~response.success
           /\ now = AttemptTime(j)

\* C12 witness: a 404 on the second attempt with a third attempt still allowed.
C12_Witness ==
    /\ pc = "store"
    /\ config.retry_attempts = 3
    /\ Len(attempts) = 2
    /\ attempts[1].kind = "timeout"
    /\ attempts[2].kind = "http_error" /\ attempts[2].status = 404
    /\ ~response.success

\* C13 as stated: any two consecutive HTTP requests, retry attempts included,
\* are at least 60/rpm seconds apart.
C13_MinimumSpacing ==
    \A i \in 1..(Len(sent) - 1) :
        (sent[i + 1] - sent[i]) * config.rate_limit_rpm >= Seconds(60)

\* C14 as stated: no 60-second window holds more HTTP requests, first attempts
\* and retries together, than the requests-per-minute budget.
C14_WindowBudget ==
    \A i \in 1..Len(sent) :
        Cardinality({ j \in i..Len(sent) : sent[j] - sent[i] < Seconds(60) })
            <= config.rate_limit_rpm

\* The k-th page request of a work-item or time-entry collection, from the
\* method, its scope argument and the page size alone.
CursorFreeRequest(k) ==
    [url |-> [path |-> IF call.op = "collect_work_packages"
                       THEN "/api/v3/work_packages"
                       ELSE "/api/v3/time_entries",
              id |-> None],
     params |-> [pageSize |-> config.batch_size,
                 offset |-> k,
                 filters |-> IF call.arg = None THEN NoFilter
                             ELSE [field |-> IF call.op = "collect_work_packages"
                                             THEN "project" ELSE "workPackage",
                                   value |-> call.arg]]]

RECURSIVE ElementsUpTo(_)
ElementsUpTo(k) == IF k = 0 THEN 0 ELSE PageRows[k].data.elements + ElementsUpTo(k - 1)

\* The response stored for page k asks for another page: a success with
\* elements that leave the collected count below the reported total.
AsksForMore(k) ==
    /\ PageRows[k].data # NULL
    /\ PageRows[k].data.elements > 0
    /\ ElementsUpTo(k) < PageRows[k].data.total

\* C15 as stated: in work-item and time-entry collection the requests issued
\* are a function of the method's scope, the page size and the responses
\* received, and of nothing else, neither `incremental` nor the Raw Store:
\* request 1 is issued in every run (a run ends only after it), request k is
\* the cursor-free request for page k, it is issued only after responses
\* 1..k-1 each asked for more, and the run ends at the first response that
\* does not (or at max_pages).
C15_CursorNotApplied ==
    call.op \in {"collect_work_packages", "collect_time_entries"} =>
        /\ pc \in {"done", "raised"} => Len(requests) >= 1
        /\ \A k \in 1..Len(requests) : requests[k] = CursorFreeRequest(k)
        /\ \A k \in 1..(Len(requests) - 1) : AsksForMore(k)
        /\ pc = "loop" => \A k \in 1..Len(requests) : AsksForMore(k)
        /\ pc = "done" =>
              \/ ~AsksForMore(Len(requests))
              \/ Len(requests) = config.max_pages

\* The endpoints of metadata collection in their listed order, the two
\* activities candidates last.
ListedOrder ==
    << "/api/v3/statuses", "/api/v3/types", "/api/v3/priorities",
       "/api/v3/time_entries/activities", "/api/v3/activities" >>

\* Activities rows metadata collection has stored in this run.
ActivitiesRows ==
    SubSeq(raw["_raw_openproject_api_activities"],
           Len(prior["_raw_openproject_api_activities"]) + 1,
           Len(raw["_raw_openproject_api_activities"]))

\* C16 as stated: the activities candidates are requested in their listed
\* order, none after the first that succeeded, and a candidate that does not
\* succeed never fails metadata collection.
C16_ActivitiesCandidates ==
    call.op = "collect_metadata" =>
        /\ Len(requests) <= Len(ListedOrder)
        /\ \A k \in 1..Len(requests) : requests[k].url.path = ListedOrder[k]
        /\ \A k \in 1..Len(ActivitiesRows) :
              ActivitiesRows[k].url.path = ListedOrder[Len(requests)]
        /\ Len(requests) > 3 => ~(pc = "raised" /\ result = "ValueError")

\* Native ids held by the rows of connection c in a tool table.
ToolIds(table, c) == { r.id : r \in { x \in table : x.connection_id = c } }

\* C17 as stated: after an extractor run, every entity of every successful
\* page the collection stored, of whatever entity type, has a Tool row.
C17_EveryPageExtracted ==
    (Len(stages) >= 1 /\ stage = Stopped) =>
        \A t \in ToolTables :
            \A k \in Selected(raw[RawSource(t)], ConnectionId) :
                k > Len(prior[RawSource(t)]) =>
                    IdsOf(raw[RawSource(t)][k]) \subseteq ToolIds(tool[t], ConnectionId)

\* The places (raw row, element) at which native id `id` occurs in the rows of
\* the connection that hold a payload, in the raw table of tool table t.
Occurrences(t, id) ==
    UNION { { <<k, i>> : i \in { j \in 1..Len(ElementIds(raw[RawSource(t)][k])) :
                                    ElementIds(raw[RawSource(t)][k])[j] = id } } :
              k \in Selected(raw[RawSource(t)], ConnectionId) }

\* Native ids that occur more than once in a raw table the extractor reads,
\* in two rows or twice in one.
RepeatedIds(t) ==
    { id \in UNION { IdsOf(raw[RawSource(t)][k]) :
                       k \in Selected(raw[RawSource(t)], ConnectionId) } :
        Cardinality(Occurrences(t, id)) >= 2 }

\* C18 as stated: an extractor run writes each native id at most once, and
\* when it has ended every native id that occurs in two or more raw pages, or
\* twice in one page, has exactly one Tool row of the connection, whatever
\* the entity type.
C18_DedupUnderOverlap ==
    \A t \in ToolTables :
        /\ Len(stages) >= 1 =>
              \A i, j \in 1..Len(written[t]) :
                  i # j => written[t][i].id # written[t][j].id
        /\ (Len(stages) >= 1 /\ stage = Stopped) =>
              \A id \in RepeatedIds(t) :
                  Cardinality({ r \in tool[t] :
                                  r.connection_id = ConnectionId /\ r.id = id }) = 1

\* The collection run just made is complete: every page arrived and the last
\* one left nothing to ask for.
CompleteRun ==
    /\ pc = "done"
    /\ Len(PageRows) = Len(requests)
    /\ \A k \in 1..Len(PageRows) : PageRows[k].data # NULL
    /\ ~AsksForMore(Len(PageRows))

\* C19 as stated: after the extractor run that follows a complete collection
\* run, no work package or time entry Tool row of the connection has a native
\* id absent from every page of that run.
C19_StaleIdsVanish ==
    (/\ Len(stages) >= 1
     /\ stage = Stopped
     /\ call.op \in {"collect_work_packages", "collect_time_entries"}
     /\ CompleteRun)
    => LET t == IF call.op = "collect_work_packages"
                THEN "_tool_openproject_work_packages"
                ELSE "_tool_openproject_time_entries"
       IN  ToolIds(tool[t], ConnectionId)
              \subseteq UNION { IdsOf(PageRows[k]) : k \in 1..Len(PageRows) }

\* C20: once extractor and converter have run over a raw store, a further
\* extractor or converter run over the same raw store changes no Tool table
\* and no Domain table.
C20_IdempotentRerun ==
    (Len(stages) >= 2 /\ stage = Stopped) =>
        LET again == Extraction(1, 0, raw, tool, [t \in ToolTables |-> <<>>], <<>>,
                                ConnectionId, fault, config.use_pure)
        IN  /\ again.tool = tool
            /\ Conversion(1, again.tool, domain, <<>>, ConnectionId, fault).domain = domain

\* C20 witness: extractor and converter have each run twice over two pages of
\* work packages, one of them left by an earlier collection run.
C20_Witness ==
    /\ stages = <<"run_extraction", "run_conversion", "run_extraction", "run_conversion">>
    /\ stage = Stopped
    /\ Len(prior["_raw_openproject_api_work_packages"]) = 1
    /\ Len(raw["_raw_openproject_api_work_packages"]) >= 2
    /\ Cardinality(tool["_tool_openproject_work_packages"]) >= 2
    /\ Cardinality(domain["issues"]) >= 2

-----------------------------------------------------------------------------
(* Properties of the Extractor and the Converter *)

\* The stage that ran last, "none" before any.
LastStage == IF stages = <<>> \/ stage # Stopped THEN "none" ELSE stages[Len(stages)]

\* An extractor run has just ended.
Extracting == LastStage = "run_extraction"

\* The exception method m raised in the latest stage run: "none" when it
\* returned, "not run" when it was not called.
Outcome(m) ==
    IF \E i \in 1..Len(trail) : trail[i].method = m
    THEN trail[CHOOSE i \in 1..Len(trail) : trail[i].method = m].error
    ELSE "not run"

\* Native ids of the elements with an id in the pages a method reads that
\* parse to a list of elements.
ParsableIds(t) ==
    LET rows == raw[RawSource(t)]
        order == ReadOrder(t, rows, ConnectionId)
    IN  UNION { { ParsedElements(t, rows[order[i]]).elements[j].id :
                    j \in { n \in 1..Len(ParsedElements(t, rows[order[i]]).elements) :
                              Truthy(ParsedElements(t, rows[order[i]]).elements[n].id) } } :
                i \in { n \in 1..Len(order) :
                          ParsedElements(t, rows[order[n]]).error = "none" } }

\* C21 as stated: an extractor run over raw rows of any payload, the database
\* working, raises in no method, and every element of every row that does
\* parse has a Tool row, whatever the other rows of its table hold.
C21_ParseErrorsSkipped ==
    (Extracting /\ fault = NoFault) =>
        /\ \A i \in 1..Len(trail) : trail[i].error = "none"
        /\ Outcome("update_references") = "none"
        /\ \A t \in ToolTables : ParsableIds(t) \subseteq ToolIds(tool[t], ConnectionId)

\* The tool table an extract method writes.
TableOf(m) ==
    ExtractMethods[CHOOSE i \in 1..Len(ExtractMethods) : ExtractMethods[i].method = m].table

\* Methods of the latest run in which the database failed.
Failed == { trail[i].method : i \in { n \in 1..Len(trail) : trail[n].error = "DatabaseError" } }

\* C22 as stated: a method of the extractor, the metadata methods included, in
\* which the database fails is the last the run calls (the exception is raised
\* again and ends the stage), and a method that commits once leaves its table
\* as it found it.
C22_PersistenceErrorHalts ==
    Extracting =>
        \A m \in Failed :
            /\ trail[Len(trail)].method = m
            /\ (m \notin {"extract_work_packages", "update_references"}
                    => tool[TableOf(m)] = EarlierTool[TableOf(m)])

\* Positions of the INSERTs among the statements of extract_work_packages over
\* the raw store, in order.
WorkPackageStatements == Statements(WorkPackages, raw, ConnectionId, config.use_pure)

InsertPositions ==
    Ascending({ i \in 1..Len(WorkPackageStatements) : WorkPackageStatements[i].op = "insert" })

\* Position of the INSERT at which the database fails, and of the commit that
\* ended the batch before it (0 when it fails in the first batch).
FailingPosition == InsertPositions[fault.at]

LastCommit ==
    LET before == { i \in 1..(FailingPosition - 1) : WorkPackageStatements[i].op = "commit" }
    IN  IF before = {} THEN 0 ELSE CHOOSE i \in before : \A j \in before : j <= i

\* Rows of the batches that ended before the failing one, and rows of the
\* failing batch inserted before the error.
CommittedBatches ==
    { WorkPackageStatements[i].row :
        i \in { n \in 1..LastCommit : WorkPackageStatements[n].op = "insert" } }

FailingBatch ==
    { WorkPackageStatements[i].row :
        i \in { n \in (LastCommit + 1)..(FailingPosition - 1) :
                  WorkPackageStatements[n].op = "insert" } }

WorkPackagesFailed ==
    /\ Extracting
    /\ fault.method = "extract_work_packages"
    /\ fault.at <= Len(InsertPositions)

\* C23: when the database fails at an INSERT of batch k of
\* extract_work_packages, the rows of batches 1..k-1 are in the tool table as
\* they were inserted, no row of batch k is, and the exception ends the run:
\* the method is the last one called. Failing in the first batch, the table
\* is as the run found it.
C23_EarlierBatchesKept ==
    WorkPackagesFailed =>
        /\ Outcome("extract_work_packages") = "DatabaseError"
        /\ trail[Len(trail)].method = "extract_work_packages"
        /\ OfConnection(tool[WorkPackages], ConnectionId) =
              (IF LastCommit = 0 THEN OfConnection(EarlierTool[WorkPackages], ConnectionId)
               ELSE CommittedBatches)
        /\ FailingBatch \cap tool[WorkPackages] = {}
        /\ { r \in tool[WorkPackages] : r.connection_id # ConnectionId } =
              { r \in EarlierTool[WorkPackages] : r.connection_id # ConnectionId }

\* The database has failed in a batch after the first, after an INSERT of
\* that batch had been executed.
C23_Witness ==
    /\ WorkPackagesFailed
    /\ CommittedBatches # {}
    /\ FailingBatch # {}

\* Position of a method in the calls of the latest run, 0 when not called.
CalledAt(m) ==
    IF \E i \in 1..Len(trail) : trail[i].method = m
    THEN CHOOSE i \in 1..Len(trail) : trail[i].method = m
    ELSE 0

ExtractionSteps == { ExtractMethods[i].method : i \in 1..Len(ExtractMethods) } \ {"extract_time_entries"}

\* C24 as stated: update_references is called only after the methods that
\* extract statuses, types, priorities, activities, projects, users and work
\* packages have been called and have returned; it is not called in a run in
\* which one of them raised.
C24_ReferencesAfterExtraction ==
    (Extracting /\ CalledAt("update_references") > 0) =>
        \A m \in ExtractionSteps :
            /\ 0 < CalledAt(m)
            /\ CalledAt(m) < CalledAt("update_references")
            /\ Outcome(m) = "none"

\* The columns update_references sets.
Denormalized ==
    {"assignee_login", "responsible_login", "author_login", "project_identifier",
     "status_is_closed"}

\* A tool table as its extract method leaves it, before update_references.
BeforeReferences(t) ==
    LET at == IF \E i \in 1..Len(ExtractMethods) :
                    ExtractMethods[i].table = t /\ ExtractMethods[i].method = fault.method
              THEN fault.at ELSE 0
    IN  Extracted(t, raw, EarlierTool[t], ConnectionId, at, config.use_pure).table

\* Two rows are the same row, and differ in denormalized columns at most.
SameButReferences(r, w) ==
    /\ r.connection_id = w.connection_id
    /\ r.id = w.id
    /\ DOMAIN r = DOMAIN w
    /\ \A col \in DOMAIN r \ Denormalized : r[col] = w[col]

ReferencesUpdated == Extracting /\ Outcome("update_references") = "none"

\* C25: update_references leaves every tool table but the work packages as the
\* extract methods left it; it keeps the work package rows one for one, those
\* of other connections unchanged and those of its own changed in the five
\* denormalized columns at most; the raw store and, in a first run, the
\* domain store are as before the run.
C25_OnlyDenormalizedColumns ==
    ReferencesUpdated =>
        /\ \A t \in ToolTables \ {WorkPackages} : tool[t] = BeforeReferences(t)
        /\ Cardinality(tool[WorkPackages]) = Cardinality(BeforeReferences(WorkPackages))
        /\ \A r \in tool[WorkPackages] :
              \E w \in BeforeReferences(WorkPackages) :
                  /\ SameButReferences(r, w)
                  /\ (r.connection_id # ConnectionId => r = w)
        /\ raw = prior
        /\ (Len(stages) = 1 => domain = EarlierDomain)

\* update_references has set the assignee's login, the project identifier and
\* the closed flag of a work package, next to a row of another connection that
\* has references of its own.
C25_Witness ==
    /\ ReferencesUpdated
    /\ \E r \in tool[WorkPackages], w \in BeforeReferences(WorkPackages) :
          /\ SameButReferences(r, w)
          /\ r.assignee_login # w.assignee_login
          /\ r.project_identifier # w.project_identifier
          /\ r.status_is_closed # w.status_is_closed
    /\ \E r \in tool[WorkPackages] : r.connection_id # ConnectionId /\ r.assignee_id # None

\* A converter run has just ended.
Converting == LastStage = "run_conversion"

\* The column a convert method deletes by, and the entity kind of its prefix.
KeyColumn(d) ==
    CASE d = "board_issues" -> "board_id"
      [] d = "sprint_issues" -> "sprint_id"
      [] OTHER -> "id"

KindOf(d) ==
    CASE d = "issues" -> "WorkPackages"
      [] d = "boards" -> "Projects"
      [] d = "board_issues" -> "Projects"
      [] d = "accounts" -> "Users"
      [] d = "issue_worklogs" -> "TimeEntries"
      [] d = "sprints" -> "Versions"
      [] d = "sprint_issues" -> "Versions"

\* The text every id of connection c and the given kind starts with.
OwnPrefix(kind, c) == <<"openproject", ":", kind, ":">> \o str(c) \o <<":">>

\* Rows of a domain table that other tools and other connections wrote
\* before the run.
Foreign(d) ==
    { x \in EarlierDomain[d] :
        \A n \in 0..9 : x[KeyColumn(d)] # OwnPrefix(KindOf(d), ConnectionId) \o str(n) }

\* C26: after a converter run every row that another tool or another
\* connection wrote (connections 10 and 11 included, whose id begins with this
\* connection's id 1) is in its table as it was, in every domain and
\* relationship table, and every other row of the table carries this
\* connection's id prefix.
C26_ForeignRowsUntouched ==
    Converting =>
        \A d \in DomainTables :
            /\ Foreign(d) \subseteq domain[d]
            /\ \A x \in domain[d] \ Foreign(d) :
                  /\ Like(x[KeyColumn(d)], OwnPrefix(KindOf(d), ConnectionId))
                  /\ \A f \in Foreign(d) : f[KeyColumn(d)] # x[KeyColumn(d)]

\* A converter run has deleted the issue, the account and the board pair an
\* earlier run of this connection left and has written new ones, next to rows
\* of connection 10.
C26_Witness ==
    /\ Converting
    /\ \E x \in EarlierDomain["issues"] \ domain["issues"] :
          Like(x.id, OwnPrefix("WorkPackages", ConnectionId))
    /\ \E x \in EarlierDomain["board_issues"] :
          Like(x.board_id, OwnPrefix("Projects", ConnectionId))
    /\ \E x \in domain["issues"] \ EarlierDomain["issues"] : TRUE
    /\ \E x \in domain["board_issues"] \ EarlierDomain["board_issues"] : TRUE
    /\ \E x \in Foreign("issues") : x.id = OwnPrefix("WorkPackages", 10) \o str(1)
    /\ \E x \in Foreign("board_issues") : x.board_id = OwnPrefix("Projects", 10) \o str(1)

\* The text <source>:<EntityKind>:<connection_id>:<native_id>.
Spelled(kind, c, n) == <<"openproject", ":", kind, ":">> \o str(c) \o <<":">> \o str(n)

\* The tool table whose rows a domain table's ids are built from.
ToolOf(d) ==
    CASE d = "issues" -> WorkPackages
      [] d = "boards" -> "_tool_openproject_projects"
      [] d = "accounts" -> "_tool_openproject_users"
      [] d = "issue_worklogs" -> "_tool_openproject_time_entries"
      [] d = "sprints" -> "_tool_openproject_versions"

\* A converter run has just ended in which no statement failed: every convert
\* method returned and convert_issues skipped no record.
ConvertedAll ==
    /\ Converting
    /\ \A i \in 1..Len(trail) :
          /\ trail[i].error = "none"
          /\ trail[i].method = "convert_issues" =>
                trail[i].stat = Cardinality(OfConnection(tool[WorkPackages], ConnectionId))

\* Connections and native ids whose domain ids are compared.
IdConnections == {ConnectionId} \cup OtherConnections

NativeIds == 1..12 \cup {101, 110}

EntityKinds == {"WorkPackages", "Projects", "Users", "TimeEntries", "Versions"}

\* C27: after every converter run without a failing statement, first or
\* repeated, each tool row of the connection has its domain row under the id
\* openproject:<Kind>:<connection_id>:<native_id>, a text fixed by kind,
\* connection and native id; and two different pairs (connection, native id)
\* of one kind never give the same id.
C27_DomainIdDeterministic ==
    ConvertedAll =>
        /\ \A d \in DomainTables \ {"board_issues", "sprint_issues"} :
              \A r \in OfConnection(tool[ToolOf(d)], ConnectionId) :
                  /\ \E x \in domain[d] : x.id = Spelled(KindOf(d), ConnectionId, r.id)
                  /\ DomainId(KindOf(d), ConnectionId, r.id)
                        = Spelled(KindOf(d), ConnectionId, r.id)
        /\ \A k \in EntityKinds :
              \A c1 \in IdConnections, c2 \in IdConnections :
                  \A n1 \in NativeIds, n2 \in NativeIds :
                      DomainId(k, c1, n1) = DomainId(k, c2, n2) => (c1 = c2 /\ n1 = n2)

\* A second converter run has written the issue of work package 1 under the id
\* openproject:WorkPackages:1:1, next to the issue of connection 11 with the
\* same native id.
C27_Witness ==
    /\ ConvertedAll
    /\ Len(stages) = 4
    /\ \E r \in OfConnection(tool[WorkPackages], ConnectionId) : r.id = 1
    /\ \E x \in domain["issues"] :
          x.id = <<"openproject", ":", "WorkPackages", ":", "1", ":", "1">>
    /\ \E x \in domain["issues"] :
          x.id = <<"openproject", ":", "WorkPackages", ":", "1", "1", ":", "1">>

\* The issue a converter run wrote for a work package row.
IssueOf(wp) ==
    CHOOSE x \in domain["issues"] : x.id = Spelled("WorkPackages", ConnectionId, wp.id)

OwnWorkPackages == OfConnection(tool[WorkPackages], ConnectionId)

\* The status a work package refers to is extracted and has its closed flag set.
ClosedStatus(wp) ==
    \E s \in OfConnection(tool["_tool_openproject_statuses"], ConnectionId) :
        s.id = wp.status_id /\ s.is_closed = 1

UnmappedStatus(wp) == wp.status_name \notin DOMAIN status_mappings

UnmappedType(wp) == wp.type_name \notin DOMAIN type_mappings

\* C28 as stated: a work package whose status name is no key of the status
\* dictionary becomes an issue of status "TODO", and one whose type name is no
\* key of the type dictionary an issue of type "REQUIREMENT".
C28_UnmappedDefaults ==
    ConvertedAll =>
        \A wp \in OwnWorkPackages :
            /\ UnmappedStatus(wp) => IssueOf(wp).status = "TODO"
            /\ UnmappedType(wp) => IssueOf(wp).type = "REQUIREMENT"

\* C28 amended: a work package whose status name is no key of the status
\* dictionary becomes an issue of status "DONE" when its status is flagged
\* closed and of status "TODO" otherwise; one whose type name is no key of the
\* type dictionary becomes an issue of type "REQUIREMENT".
C28_UnmappedDefaultsUnlessClosed ==
    ConvertedAll =>
        \A wp \in OwnWorkPackages :
            /\ UnmappedStatus(wp) =>
                  IssueOf(wp).status = (IF ClosedStatus(wp) THEN "DONE" ELSE "TODO")
            /\ UnmappedType(wp) => IssueOf(wp).type = "REQUIREMENT"

\* A work package of the unmapped type "Chore" and the unmapped status
\* "Wontfix", which is flagged closed, has been converted.
C28_Witness ==
    /\ ConvertedAll
    /\ \E wp \in OwnWorkPackages :
          /\ wp.status_name = "Wontfix"
          /\ ClosedStatus(wp)
          /\ wp.type_name = "Chore"
          /\ IssueOf(wp).status = "DONE"
          /\ IssueOf(wp).original_status = "Wontfix"
          /\ IssueOf(wp).type = "REQUIREMENT"

\* C29: the issue of a work package has the work package's updated timestamp
\* as resolution_date when its mapped status is "DONE", and no resolution_date
\* when its mapped status is "TODO" or "DOING".
C29_ResolutionOnlyWhenDone ==
    ConvertedAll =>
        \A wp \in OwnWorkPackages :
            /\ IssueOf(wp).status \in {"TODO", "DOING", "DONE"}
            /\ IssueOf(wp).status = "DONE" => IssueOf(wp).resolution_date = wp.updated_at
            /\ IssueOf(wp).status # "DONE" => IssueOf(wp).resolution_date = None

\* Two work packages updated at the same time have been converted, one to a
\* DONE issue resolved at that time, one to a DOING issue without resolution
\* date.
C29_Witness ==
    /\ ConvertedAll
    /\ \E wp \in OwnWorkPackages :
          /\ wp.updated_at = 7
          /\ IssueOf(wp).status = "DONE"
          /\ IssueOf(wp).resolution_date = 7
    /\ \E wp \in OwnWorkPackages :
          /\ wp.updated_at = 7
          /\ IssueOf(wp).status = "DOING"
          /\ IssueOf(wp).resolution_date = None

\* The worklog a converter run wrote for a time entry row.
WorklogOf(te) ==
    CHOOSE x \in domain["issue_worklogs"] :
        x.id = Spelled("TimeEntries", ConnectionId, te.id)

\* The hours of a row times 60, truncated.
Minutes(hours) == Product(hours.float, 60)[1]

\* C30 as stated: a work package whose estimated and spent hours are both
\* present, 0 included, gets each as whole minutes (hours times 60,
\* truncated; the estimate is stored as story_point) and as remaining estimate
\* the difference of the two, at least 0; a time entry with hours, 0 included,
\* gets them as whole minutes.
C30_HoursToMinutes ==
    ConvertedAll =>
        /\ \A wp \in { r \in OwnWorkPackages :
                         r.estimated_hours # NULL /\ r.spent_hours # NULL } :
              /\ IssueOf(wp).story_point = Minutes(wp.estimated_hours)
              /\ WorkPackageMinutes(wp).estimated_minutes = Minutes(wp.estimated_hours)
              /\ WorkPackageMinutes(wp).spent_minutes = Minutes(wp.spent_hours)
              /\ WorkPackageMinutes(wp).remaining_minutes =
                    Max(0, Minutes(wp.estimated_hours) - Minutes(wp.spent_hours))
        /\ \A te \in { r \in OfConnection(tool["_tool_openproject_time_entries"],
                                          ConnectionId) : r.hours # NULL } :
              WorklogOf(te).time_spent_minutes = Minutes(te.hours)

-----------------------------------------------------------------------------
(* Properties of relationships, failures of the converter and versions *)

\* The convert methods of the core entities.
CoreMethods == {"convert_accounts", "convert_boards", "convert_issues", "convert_worklogs"}

\* The methods that rebuild a relationship table.
RelationMethods == {"convert_board_issues", "convert_sprint_issues"}

\* The rows of a relationship table under this connection's prefix.
OwnPairs(d) ==
    { x \in domain[d] : Like(x[KeyColumn(d)], OwnPrefix(KindOf(d), ConnectionId)) }

\* C31: in a converter run a relationship table is rebuilt only after accounts,
\* boards, issues and worklogs were converted and committed; once
\* convert_board_issues has returned, the board_issues rows under the
\* connection's prefix are exactly the pairs (project, work package) of the
\* tool work packages with a project id, and once convert_sprint_issues has
\* returned, the sprint_issues rows under the prefix are exactly the pairs
\* (version, work package) of the tool work packages with a version id.
C31_RelationsAfterCore ==
    Converting =>
        /\ \A i \in 1..Len(trail) :
              trail[i].method \in RelationMethods =>
                  \A m \in CoreMethods :
                      \E j \in 1..(i - 1) :
                          trail[j].method = m /\ trail[j].error = "none"
        /\ Outcome("convert_board_issues") = "none" =>
              OwnPairs("board_issues") =
                  { [board_id |-> Spelled("Projects", ConnectionId, wp.project_id),
                     issue_id |-> Spelled("WorkPackages", ConnectionId, wp.id)] :
                      wp \in { r \in OwnWorkPackages : r.project_id # None } }
        /\ Outcome("convert_sprint_issues") = "none" =>
              OwnPairs("sprint_issues") =
                  { [sprint_id |-> Spelled("Versions", ConnectionId, wp.version_id),
                     issue_id |-> Spelled("WorkPackages", ConnectionId, wp.id)] :
                      wp \in { r \in OwnWorkPackages : r.version_id # None } }

\* A converter run has rebuilt both relationship tables: the pairs an earlier
\* run left are gone, work package 1 is paired with project 7 and version 2,
\* work package 2 with version 1, and work package 3, which has neither
\* project id nor version, is in no pair.
C31_Witness ==
    /\ Converting
    /\ Outcome("convert_board_issues") = "none"
    /\ Outcome("convert_sprint_issues") = "none"
    /\ \E r \in OwnWorkPackages : r.id = 3 /\ r.project_id = None /\ r.version_id = None
    /\ OwnPairs("board_issues") \cap EarlierDomain["board_issues"] = {}
    /\ OwnPairs("sprint_issues") \cap EarlierDomain["sprint_issues"] = {}
    /\ [board_id |-> Spelled("Projects", ConnectionId, 7),
        issue_id |-> Spelled("WorkPackages", ConnectionId, 1)] \in domain["board_issues"]
    /\ [sprint_id |-> Spelled("Versions", ConnectionId, 2),
        issue_id |-> Spelled("WorkPackages", ConnectionId, 1)] \in domain["sprint_issues"]
    /\ [sprint_id |-> Spelled("Versions", ConnectionId, 1),
        issue_id |-> Spelled("WorkPackages", ConnectionId, 2)] \in domain["sprint_issues"]

\* The tables of entity kinds and the method that converts each.
KindTables == {"issues", "boards", "accounts", "issue_worklogs", "sprints"}

MethodOf(d) ==
    ConvertMethods[CHOOSE i \in 1..Len(ConvertMethods) : ConvertMethods[i].table = d].method

\* The tool rows a convert method reads, in the order it inserts them.
SourceRows(d) == InKeyOrder(OfConnection(tool[ToolOf(d)], ConnectionId))

\* The INSERT of one record of kind d has failed in the latest converter run.
RecordFailed(d) ==
    /\ Converting
    /\ fault.method = MethodOf(d)
    /\ fault.at \in 1..Len(SourceRows(d))
    /\ CalledAt(MethodOf(d)) > 0

\* C32 as stated: for issues, boards, accounts, worklogs and sprints alike,
\* when the INSERT of one record fails, the convert method of the kind does
\* not raise, and every other record of the kind is in the domain table.
C32_FailingRecordSkipped ==
    \A d \in KindTables :
        RecordFailed(d) =>
            /\ Outcome(MethodOf(d)) = "none"
            /\ \A i \in 1..Len(SourceRows(d)) :
                  i # fault.at =>
                      \E x \in domain[d] :
                          /\ x.id = Spelled(KindOf(d), ConnectionId, SourceRows(d)[i].id)
                          /\ x.version = SourceRows(d)[i].version

\* The sprint methods that raised in the latest converter run.
FailedSprintSteps ==
    { m \in {"convert_sprints", "convert_sprint_issues"} :
        Outcome(m) \notin {"none", "not run"} }

\* The entry of method m in the statistics run_conversion returns: what the
\* method returned, 0 when it raised or was not called.
StatOf(m) == IF CalledAt(m) > 0 THEN trail[CalledAt(m)].stat ELSE 0

\* C33: when convert_sprints or convert_sprint_issues raises, run_conversion
\* returns normally; every account, board, issue and worklog the run has
\* converted (every one but an issue whose INSERT failed) is in its table and
\* board_issues holds the pairs of the run; the method that
\* raised, and convert_sprint_issues when it was not called, count 0 in the
\* statistics; and in a first run the table of the method that raised is as
\* it was.
C33_SprintFailureContained ==
    (Converting /\ FailedSprintSteps # {}) =>
        /\ Outcome("run_conversion") = "none"
        /\ \A d \in KindTables \ {"sprints"} :
              /\ Outcome(MethodOf(d)) = "none"
              /\ \A i \in 1..Len(SourceRows(d)) :
                    ~(fault.method = MethodOf(d) /\ fault.at = i) =>
                        \E x \in domain[d] :
                            /\ x.id = Spelled(KindOf(d), ConnectionId, SourceRows(d)[i].id)
                            /\ x.version = SourceRows(d)[i].version
        /\ Outcome("convert_board_issues") = "none"
        /\ OwnPairs("board_issues") =
              { [board_id |-> Spelled("Projects", ConnectionId, wp.project_id),
                 issue_id |-> Spelled("WorkPackages", ConnectionId, wp.id)] :
                  wp \in { r \in OwnWorkPackages : r.project_id # None } }
        /\ \A m \in FailedSprintSteps : StatOf(m) = 0
        /\ Outcome("convert_sprint_issues") = "not run" => StatOf("convert_sprint_issues") = 0
        /\ Len(stages) = 2 =>
              \A i \in 1..Len(ConvertMethods) :
                  ConvertMethods[i].method \in FailedSprintSteps =>
                      domain[ConvertMethods[i].table] = EarlierDomain[ConvertMethods[i].table]

\* The first INSERT of convert_sprint_issues has failed after the core
\* entities, the board pairs and the sprints were committed: run_conversion
\* has returned, three issues and two board pairs are stored, and the pair an
\* earlier run left in sprint_issues is still there.
C33_Witness ==
    /\ Converting
    /\ Outcome("convert_sprints") = "none"
    /\ Outcome("convert_sprint_issues") = "DatabaseError"
    /\ Outcome("run_conversion") = "none"
    /\ StatOf("convert_issues") = 3
    /\ StatOf("convert_board_issues") = 2
    /\ Cardinality(OwnPairs("board_issues")) = 2
    /\ OwnPairs("sprint_issues") =
          { [sprint_id |-> Spelled("Versions", ConnectionId, 1),
             issue_id |-> Spelled("WorkPackages", ConnectionId, 9)] }

\* Native ids of the versions in the pages the collector stored for this
\* connection.
CollectedVersions ==
    LET pages == raw["_raw_openproject_api_versions"]
    IN  UNION { { pages[i].data.embedded[j].id : j \in 1..Len(pages[i].data.embedded) } :
                  i \in { n \in 1..Len(pages) :
                            /\ pages[n].connection_id = ConnectionId
                            /\ "embedded" \in DOMAIN pages[n].data } }

\* C35 as stated: after an extractor run and a converter run in which nothing
\* failed, every version the collector stored has a row in
\* _tool_openproject_versions and a sprint in the domain store.
C35_VersionsBecomeSprints ==
    ConvertedAll =>
        \A v \in CollectedVersions :
            /\ \E r \in OfConnection(tool["_tool_openproject_versions"], ConnectionId) :
                  r.id = v
            /\ \E x \in domain["sprints"] : x.id = Spelled("Versions", ConnectionId, v)

\* Positions of the raw rows of this connection that hold an element with the
\* given id, for the raw table a tool table is extracted from; a later
\* position is a later collected page.
PositionsOf(t, id) ==
    LET rows == raw[RawSource(t)]
    IN  { k \in 1..Len(rows) :
            /\ rows[k].connection_id = ConnectionId
            /\ ParsedElements(t, rows[k]).error = "none"
            /\ \E j \in 1..Len(ParsedElements(t, rows[k]).elements) :
                  ParsedElements(t, rows[k]).elements[j].id = id }

\* The raw row a tool row of table t was copied from is the latest that holds
\* its id.
FromNewestPage(t, r) ==
    /\ r.version \in PositionsOf(t, r.id)
    /\ \A k \in PositionsOf(t, r.id) : k <= r.version

\* C37 as stated: after an extractor run over raw pages of several collector
\* runs, the tool row of a work package carries the content of the latest
\* page that holds the work package, as the tool row of a time entry does.
C37_NewestWorkPackageWins ==
    (Extracting /\ Outcome("extract_work_packages") = "none") =>
        \A r \in OwnWorkPackages : FromNewestPage(WorkPackages, r)

\* The rows of a tool table that belong to other connections.
OfOthers(table) == { r \in table : r.connection_id # ConnectionId }

\* C38: whatever the raw rows hold and wherever the database fails, after
\* every transaction of every extractor run of this connection each tool
\* table holds the rows of other connections exactly as they were: none
\* deleted, none added, none changed.
C38_OtherConnectionsUntouched ==
    \A t \in ToolStore : OfOthers(tool[t]) = OfOthers(EarlierTool[t])

\* An extractor run has deleted the rows an earlier run of this connection
\* left and has written work package 1, user 1, project 1 and status 1, next
\* to the rows of connection 2 with the same native ids.
C38_Witness ==
    /\ Extracting
    /\ Returned(trail)
    /\ \A t \in {WorkPackages, "_tool_openproject_users", "_tool_openproject_projects",
                 "_tool_openproject_statuses"} :
          /\ 1 \in ToolIds(tool[t], ConnectionId)
          /\ 9 \notin ToolIds(tool[t], ConnectionId)
          /\ 9 \in ToolIds(EarlierTool[t], ConnectionId)
          /\ 1 \in ToolIds(tool[t], 2)
    /\ \E r \in OwnWorkPackages : r.id = 1 /\ r.assignee_login # NoString

\* C39: in every paginated collection a further page is requested after page
\* k only when page k was a success with elements and a reported total above
\* the count collected up to it; a successful page with elements and no total
\* is the last page of the call, which returns after it.
C39_TotalDrivesPagination ==
    call.op \in PaginatedOps =>
        \A k \in 1..Len(PageRows) :
            /\ Len(requests) > k =>
                  /\ PageRows[k].data # NULL
                  /\ PageRows[k].data.elements > 0
                  /\ PageRows[k].data.total # None
                  /\ ElementsUpTo(k) < PageRows[k].data.total
            /\ (/\ PageRows[k].data # NULL
                /\ PageRows[k].data.elements > 0
                /\ PageRows[k].data.total = None) =>
                  /\ Len(requests) = k
                  /\ pc \in {"decide", "done"}

\* A collection has gone on after a full first page that reported a larger
\* total and has returned after a second page that carried no total.
C39_Witness ==
    /\ call.op = "collect_versions"
    /\ pc = "done"
    /\ Len(requests) = 2
    /\ Len(PageRows) = 2
    /\ PageRows[1].data # NULL
    /\ PageRows[1].data.elements = PageSize
    /\ PageRows[1].data.total > PageSize
    /\ PageRows[2].data # NULL
    /\ PageRows[2].data.elements > 0
    /\ PageRows[2].data.total = None
    /\ result = PageSize + PageRows[2].data.elements

\* Position of a component in the pipeline.
PositionOf(c) == CHOOSE i \in 1..Len(Components) : Components[i].script = c

\* C34: at most one component runs at a time; a component runs or has run
\* only if every component before it has finished, in order, with success, so
\* the extractor after the collector and the converter after the extractor;
\* a collect method runs only in the collector's process, a transaction of
\* run_extraction only in the extractor's and one of run_conversion only in
\* the converter's, so a store shows no trace of a stage that has not
\* started; after a component that failed no component starts, and the
\* pipeline exits with 1 when a component failed and with 0 only when all
\* three succeeded.
C34_StageBarrier ==
    /\ Cardinality(pipeline.running) <= 1
    /\ \A j \in 1..Len(pipeline.outcomes) :
          /\ pipeline.outcomes[j].component = Components[j].script
          /\ stages[j] = Components[j].run
          /\ j < Len(pipeline.outcomes) => pipeline.outcomes[j].success
    /\ Len(pipeline.outcomes) <= Len(stages)
    /\ Len(stages) <= Len(pipeline.outcomes) + Cardinality(pipeline.running)
    /\ \A c \in pipeline.running :
          /\ PositionOf(c) = Len(pipeline.outcomes) + 1
          /\ \A j \in 1..Len(pipeline.outcomes) : pipeline.outcomes[j].success
    /\ (pipeline.outcomes = <<>> /\ pipeline.running = {})
          => raw = [t \in RawTables |-> <<>>]
    /\ call.op \notin {"none", "run_collection"} => pipeline.running = {"collector"}
    /\ stage.run = "run_extraction" => pipeline.running = {"extractor"}
    /\ stage.run = "run_conversion" => pipeline.running = {"converter"}
    /\ (Len(pipeline.outcomes) < 2 /\ pipeline.running # {"extractor"})
          => tool = EarlierTool /\ written = [t \in ToolTables |-> <<>>]
    /\ (Len(pipeline.outcomes) < 3 /\ pipeline.running # {"converter"})
          => domain = EarlierDomain
    /\ pipeline.code # None =>
          /\ pipeline.running = {}
          /\ pipeline.code = 1 <=>
                \E j \in 1..Len(pipeline.outcomes) : ~pipeline.outcomes[j].success
          /\ pipeline.code = 0 <=>
                /\ Len(pipeline.outcomes) = Len(Components)
                /\ \A j \in 1..Len(pipeline.outcomes) :
                      pipeline.outcomes[j].success /\ pipeline.outcomes[j].returncode = 0

\* The collector has succeeded, the extractor has committed the methods
\* before extract_work_packages and has failed with exit code 1 at an INSERT
\* of that method, the converter was never started (the domain tables are as
\* they were) and the pipeline has exited with 1.
C34_Witness ==
    /\ pipeline.code = 1
    /\ Len(pipeline.outcomes) = 2
    /\ pipeline.outcomes[1] = [component |-> "collector", success |-> TRUE, returncode |-> 0]
    /\ pipeline.outcomes[2] = [component |-> "extractor", success |-> FALSE, returncode |-> 1]
    /\ Outcome("extract_work_packages") = "DatabaseError"
    /\ raw["_raw_openproject_api_work_packages"] # <<>>
    /\ tool # EarlierTool
    /\ domain = EarlierDomain

\* The collector's run has just ended.
Collecting == stages = <<"run_collection">> /\ pipeline.running = {}

\* The collect methods the latest collector run called, in order.
MethodsCalled ==
    [i \in 1..(Len(trail) - 1) |-> trail[i].method]

\* The collect methods in the order the spec gives: metadata, projects,
\* users, work items, time entries, versions.
FixedOrder ==
    << "collect_metadata", "collect_projects", "collect_users", "collect_work_packages",
       "collect_time_entries", "collect_versions" >>

\* A write to the raw store failed in the latest collector run.
StoreFailed ==
    \E i \in 1..Len(trail) : trail[i].error = "mysql.connector.Error"

\* C36 as stated: run_collection calls every collect method, in the order
\* metadata, projects, users, work packages, time entries, versions, whatever
\* HTTP failures the methods meet, and returns normally, unless a write to
\* the raw store fails; and it raises only when a write to the raw store
\* failed.
C36_OnlyStoreFailureHalts ==
    Collecting =>
        /\ ~StoreFailed =>
              /\ MethodsCalled = FixedOrder
              /\ Outcome("run_collection") = "none"
        /\ Outcome("run_collection") # "none" =>
              Outcome("run_collection") = "mysql.connector.Error"

====
